---- MODULE Spec2Model ----
(***************************************************************************)
(* State-machine model of the service layer of TFC433/0129test1:           *)
(*   WeeklyBusinessService, OpportunityService (weekly-business-service.js)*)
(*   ContactService (contact-service.js, the v7.1.0 class that is the      *)
(*   module's final export), CompanyService, InteractionService and the    *)
(*   WeeklyBusinessSqlReader (unnamed/part_000).                           *)
(*                                                                         *)
(* A behaviour is the life of one service object: Init constructs one of   *)
(* the services over collaborator stores holding arbitrary (bounded)       *)
(* content, and every step is one complete call of one of its methods.     *)
(* JavaScript objects are functions from key strings to values; a missing  *)
(* key reads as Undefined.                                                 *)
(***************************************************************************)
EXTENDS Integers, Sequences, FiniteSets, TLC

\* ---------------------------------------------------------------- bounds
\* rows a store may hold
MaxRows == 2
\* service calls in one behaviour
MaxOps == 2

\* logical ids: one more than a store has rows, so that one is always absent
IdName == <<"id1", "id2", "id3", "id4", "id5">>
RecordIds == {IdName[i] : i \in 1..(MaxRows + 1)}
\* the content of a field: the value the stores start with and another one
ValName == <<"v1", "v2">>
Vals == {ValName[1], ValName[2]}
\* the value a seeded field has, and the value the updates set
NewVals == {ValName[2]}

\* ------------------------------------------------------- JavaScript values
Undefined == "undefined"
EmptyStr == ""
\* a read of a property of an object: a missing key is undefined
Get(obj, key) == IF key \in DOMAIN obj THEN obj[key] ELSE Undefined
\* the index of the record in its list taken for its row number
RowIndexOfArrayIndex(obj) == IF "rowIndex" \in DOMAIN obj THEN obj.rowIndex - 1 ELSE 0
\* obj.rowIndex as the services test it (undefined and 0 are both falsy)
RowIndexOf(obj) == IF "rowIndex" \in DOMAIN obj THEN obj.rowIndex ELSE 0
\* x ?? d
Coalesce(x, d) == IF x = Undefined THEN d ELSE x
\* { ...a, ...b }
Spread(a, b) == [k \in (DOMAIN a) \cup (DOMAIN b) |-> IF k \in DOMAIN b THEN b[k] ELSE a[k]]
\* Array.prototype.map
RECURSIVE MapSeq(_, _)
MapSeq(F(_), s) == IF s = <<>> THEN <<>> ELSE <<F(Head(s))>> \o MapSeq(F, Tail(s))
\* Array.prototype.find: the index of the first element satisfying P, 0 if none
FindIndex(P(_), s) ==
    IF \E i \in 1..Len(s) : P(s[i])
    THEN CHOOSE i \in 1..Len(s) : P(s[i]) /\ \A j \in 1..(i - 1) : ~P(s[j])
    ELSE 0
RemoveAt(s, i) == SubSeq(s, 1, i - 1) \o SubSeq(s, i + 1, Len(s))

\* ------------------------------------------------------------------- text
\* A text is the sequence of its characters. The characters of the corporate
\* suffixes, written in Chinese in the source, are spelled gu fen you xian gong si.
\* a text is truthy when it is not empty; a field is when it is present and truthy
Truthy(text) == text # <<>>
TruthyAt(obj, key) == key \in DOMAIN obj /\ obj[key] # <<>>
\* a text field, the empty text when it is missing: (obj.key || '')
TextAt(obj, key) == IF key \in DOMAIN obj THEN obj[key] ELSE <<>>
LowerChar(c) ==
    CASE c = "A" -> "a" [] c = "B" -> "b" [] c = "C" -> "c" [] c = "I" -> "i"
      [] c = "L" -> "l" [] c = "T" -> "t" [] OTHER -> c
\* String.prototype.toLowerCase
Lower(text) == [i \in 1..Len(text) |-> LowerChar(text[i])]
\* String.prototype.trim
RECURSIVE TrimLeft(_)
TrimLeft(text) == IF text # <<>> /\ Head(text) = " " THEN TrimLeft(Tail(text)) ELSE text
RECURSIVE TrimRight(_)
TrimRight(text) ==
    IF text # <<>> /\ text[Len(text)] = " " THEN TrimRight(SubSeq(text, 1, Len(text) - 1))
    ELSE text
Trim(text) == TrimRight(TrimLeft(text))
StartsWith(text, prefix) ==
    Len(prefix) <= Len(text) /\ SubSeq(text, 1, Len(prefix)) = prefix
\* String.prototype.includes
Includes(text, part) ==
    \E i \in 1..(Len(text) - Len(part) + 1) : SubSeq(text, i, i + Len(part) - 1) = part

\* ------------------------------------------------------------------ dates
\* A date field holds a timestamp (1 and up, or PreEpoch and down for a date
\* before 1970), nothing, or a text no date parses from (a negative number above
\* PreEpoch). new Date(x).getTime() is the timestamp, or NaN.
\* As texts, dates compare by their place in the order of the date texts.
NoDate == 0
BadDate == -1
NaN == -1
Epoch == 0
PreEpoch == -100
DateAt(obj, key) == IF key \in DOMAIN obj THEN obj[key] ELSE NoDate
\* the place of a date text in the order of texts: a text that parses to no date
\* stands where the date it was made from stands
TextOrder(raw) == IF raw < 0 THEN 0 - raw ELSE raw
\* new Date(raw)
DateOf(raw) == IF raw >= 1 \/ raw <= PreEpoch THEN raw ELSE NaN
\* new Date(raw || 0)
DateOrEpoch(raw) == IF raw = NoDate THEN Epoch ELSE DateOf(raw)
\* dateB - dateA as Array.prototype.sort reads it: a NaN counts as +0
DateDiff(dateB, dateA) == IF dateB = NaN \/ dateA = NaN THEN 0 ELSE dateB - dateA
\* the comparator of searchInteractions
compareInteractionTime(a, b) ==
    LET dateA == DateOf(DateAt(a, "interactionTime"))
        dateB == DateOf(DateAt(b, "interactionTime"))
    IN  IF dateB = NaN THEN -1 ELSE IF dateA = NaN THEN 1 ELSE DateDiff(dateB, dateA)
\* the comparator of getPotentialContacts
compareCreatedTime(a, b) ==
    LET dateA == DateOf(DateAt(a, "createdTime"))
        dateB == DateOf(DateAt(b, "createdTime"))
    IN  IF dateB = NaN THEN -1 ELSE IF dateA = NaN THEN 1 ELSE DateDiff(dateB, dateA)
\* the comparator of getEntriesForWeek, on the legacy date key
compareEntryDate(a, b) == DateDiff(DateOf(DateAt(b, "zhDate")), DateOf(DateAt(a, "zhDate")))
\* the comparators of the interactions and event logs of getCompanyDetails and
\* of the event logs of getOpportunityDetails
compareInteractionOrEpoch(a, b) ==
    DateDiff(DateOrEpoch(DateAt(b, "interactionTime")),
             DateOrEpoch(DateAt(a, "interactionTime")))
compareCreatedOrEpoch(a, b) ==
    DateDiff(DateOrEpoch(DateAt(b, "createdTime")), DateOrEpoch(DateAt(a, "createdTime")))
\* the comparator of the interactions of getOpportunityDetails
compareInteractionOrCreated(a, b) ==
    LET rawA == IF DateAt(a, "interactionTime") # NoDate THEN DateAt(a, "interactionTime")
                ELSE DateAt(a, "createdTime")
        rawB == IF DateAt(b, "interactionTime") # NoDate THEN DateAt(b, "interactionTime")
                ELSE DateAt(b, "createdTime")
    IN  DateDiff(DateOf(rawB), DateOf(rawA))
comparefn(by, a, b) ==
    CASE by = "interactionTime" -> compareInteractionTime(a, b)
      [] by = "createdTime" -> compareCreatedTime(a, b)
      [] by = "entryDate" -> compareEntryDate(a, b)
      [] by = "interactionOrEpoch" -> compareInteractionOrEpoch(a, b)
      [] by = "createdOrEpoch" -> compareCreatedOrEpoch(a, b)
      [] by = "interactionOrCreated" -> compareInteractionOrCreated(a, b)
\* Array.prototype.sort(comparefn): a stable insertion sort; an element moves
\* ahead of the ones the comparator puts after it
RECURSIVE InsertBy(_, _, _)
InsertBy(sorted, x, by) ==
    IF sorted = <<>> THEN <<x>>
    ELSE IF comparefn(by, sorted[Len(sorted)], x) > 0
         THEN InsertBy(SubSeq(sorted, 1, Len(sorted) - 1), x, by) \o <<sorted[Len(sorted)]>>
    ELSE Append(sorted, x)
RECURSIVE SortBy(_, _)
SortBy(s, by) ==
    IF s = <<>> THEN <<>>
    ELSE InsertBy(SortBy(SubSeq(s, 1, Len(s) - 1), by), s[Len(s)], by)

VARIABLES
    config,      \* the configuration the service is constructed over
    service,     \* which service object this behaviour constructs
    ops,         \* service calls made so far
    sheets,      \* the authoritative stores: per collection, its rows in position order
    caches,      \* the readers' caches, per cache key
    sql,         \* the federated tables (weekly entries, contacts)
    weeklyRepo,  \* whether weeklyBusinessRepo was injected
    written,     \* per collection, the last successful update by id (read-after-write)
    last,        \* what the last service call did and returned
    pending      \* per caller, the call it has in flight between two awaits

vars == <<config, service, ops, sheets, caches, sql, weeklyRepo, written, last, pending>>

\* the collections, named by the cache key their reader uses
Keys == {"weekly", "contactList", "contacts", "companyList", "opportunities",
         "interactions", "eventLogs", "links"}

\* ------------------------------------------------- collaborators (contracts)
\* rows are the record instances the reader holds and hands out, delivered is
\* the value they had when the reader built them
NoCache == [fresh |-> FALSE, rows |-> <<>>, delivered |-> <<>>]
\* Reader.getCollection(): the cached rows while the cache is fresh, the store otherwise
ReaderGet(cache, loaded) == IF cache.fresh THEN cache.rows ELSE loaded
CacheAfterGet(cache, loaded) ==
    IF cache.fresh THEN cache ELSE [fresh |-> TRUE, rows |-> loaded, delivered |-> loaded]
\* a row handle addresses a position of the store (row 1 is the header)
HandleOf(pos) == pos + 1
PosOf(handle) == handle - 1
Addressable(sheet, handle) == PosOf(handle) \in 1..Len(sheet)

\* what a service call did: the method, its id argument, how it ended ("ok" or the
\* error it raised), what it returned, the writer calls it made (method and row
\* handle), how often it called the federated reader, the cache keys it
\* invalidated, the record its scan matched, and whether a store changed
\* and what the environment answered during the call (env)
NoCall == [op |-> "none", arg |-> Undefined, env |-> <<>>, outcome |-> "none",
           result |-> <<>>, writerCalls |-> <<>>, fedCalls |-> 0, invalidated |-> {},
           target |-> <<>>, changed |-> FALSE]
Call(op, arg, env, outcome, result, writerCalls, fedCalls, invalidated, target, changed) ==
    [op |-> op, arg |-> arg, env |-> env, outcome |-> outcome, result |-> result,
     writerCalls |-> writerCalls, fedCalls |-> fedCalls, invalidated |-> invalidated,
     target |-> target, changed |-> changed]
\* the callers whose calls may be in flight together, and where a call stands:
\* not made yet ("idle"), suspended at the await of its writer with what its scan
\* decided (the method, its argument, the row handle, the value to write), or
\* returned
Callers == {1, 2}
Idle == [op |-> "idle", arg |-> Undefined, handle |-> 0, val |-> Undefined]
Done == [op |-> "returned", arg |-> Undefined, handle |-> 0, val |-> Undefined]
NoPending == [p \in Callers |-> Idle]
\* the one collaborator the environment makes fail during a call, if any
Faults == {"none", "reader", "writer", "audit"}
\* Writer.updateAt / deleteAt: refused when the handle addresses no row
WriterRefuses(sheet, handle, fault) == fault = "writer" \/ ~Addressable(sheet, handle)
Success == [success |-> TRUE]

\* ------------------------------------------------------------------------
\* WeeklyBusinessSqlReader (src/unnamed/part_000) and the federated table
\* ------------------------------------------------------------------------
\* a row of weekly_business_entries as the select list of findAll returns it
SqlRow(id, content, date) ==
    [record_id |-> id, entry_date |-> date, week_id |-> "2026-W04",
     category |-> "cat", topic |-> "topic", participants |-> "who",
     summary_content |-> content, todo_items |-> "todo",
     created_time |-> "t0", updated_time |-> "t1", created_by |-> "user"]
mapRowToDto(row) ==
    [recordId |-> Get(row, "record_id"), weekId |-> Get(row, "week_id"),
     entryDate |-> DateAt(row, "entry_date"), category |-> Get(row, "category"),
     topic |-> Get(row, "topic"), participants |-> Get(row, "participants"),
     summaryContent |-> Get(row, "summary_content"), todoItems |-> Get(row, "todo_items"),
     createdTime |-> Get(row, "created_time"), updatedTime |-> Get(row, "updated_time"),
     creator |-> Get(row, "created_by"),
     zhDate |-> DateAt(row, "entry_date"), zhCategory |-> Get(row, "category"),
     zhTopic |-> Get(row, "topic"), zhContent |-> Get(row, "summary_content"),
     zhParticipants |-> Get(row, "participants"), zhTodo |-> Get(row, "todo_items")]
\* what the injected repo answers: rows, an error raised, or a non-sequence value
FedAnswers == {"rows", "raise", "null", "scalar", "object"}
\* findAll(): every table row mapped by _mapRowToDto
findAll(table) == MapSeq(mapRowToDto, table)

\* ------------------------------------------------------------------------
\* WeeklyBusinessService (src/services/weekly-business-service.js 17-421)
\* ------------------------------------------------------------------------
\* the keys written in Chinese in the source are spelled zhDate ('日期'),
\* zhCategory, zhTopic, zhContent, zhParticipants, zhTodo, zhPlan, zhDivision
toServiceDTO(row) ==
    [recordId |-> Get(row, "record_id"), weekId |-> Get(row, "week_id"),
     zhDate |-> DateAt(row, "entry_date"), summaryContent |-> Get(row, "summary_content"),
     creator |-> Get(row, "created_by"),
     entryDate |-> DateAt(row, "entry_date"), category |-> Get(row, "category"),
     topic |-> Get(row, "topic"), participants |-> Get(row, "participants"),
     todoItems |-> Get(row, "todo_items"), createdTime |-> Get(row, "created_time"),
     updatedTime |-> Get(row, "updated_time"),
     zhCategory |-> Get(row, "category"), zhTopic |-> Get(row, "topic"),
     zhContent |-> Get(row, "summary_content"), zhParticipants |-> Get(row, "participants"),
     zhTodo |-> Get(row, "todo_items"),
     zhPlan |-> Coalesce(Get(row, "plan"), EmptyStr),
     zhDivision |-> Coalesce(Get(row, "division"), EmptyStr)]

\* weeklyBusinessReader.getAllEntries(): every row with its row handle; a row the
\* reader cannot address comes without one
WeeklyEntry(sheet, pos) ==
    LET entry == [recordId |-> sheet[pos].recordId,
                  summaryContent |-> sheet[pos].summaryContent,
                  entryDate |-> sheet[pos].entryDate, zhDate |-> sheet[pos].entryDate]
    IN  IF sheet[pos].handleLost THEN entry
        ELSE Spread(entry, [rowIndex |-> HandleOf(pos)])
WeeklyLoad(sheet) == [pos \in 1..Len(sheet) |-> WeeklyEntry(sheet, pos)]

\* the try block of _fetchWeeklyEntries on the repo's answer: "served" when the
\* mapped rows are returned, "caught" when the catch takes over (an error raised
\* by findAll, or the TypeError of .map on a value that is no array), "thrown"
\* when an error leaves the method
weeklySqlAttemptNoCatchOfMap(fed) ==
    CASE fed = "rows" -> "served" [] fed = "raise" -> "caught" [] OTHER -> "thrown"
weeklySqlAttempt(fed) == IF fed = "rows" THEN "served" ELSE "caught"
\* whether _fetchWeeklyEntries consults the repo at all
weeklyTriesSqlIgnoringForce(forceSheet) == weeklyRepo
weeklyTriesSql(forceSheet) == ~forceSheet /\ weeklyRepo

\* _fetchWeeklyEntries(options) with the repo answering fed and the sheet reader
\* failing or not: the entries returned or the error raised, and the cache after
fetchWeeklyEntries(forceSheet, fed, readerOk) ==
    LET trySql == weeklyTriesSql(forceSheet)
        attempt == IF trySql THEN weeklySqlAttempt(fed) ELSE "skipped"
        sqlServed == attempt = "served"
        loaded == WeeklyLoad(sheets.weekly)
        readsSheet == ~sqlServed /\ attempt # "thrown"
    IN  [raised |-> attempt = "thrown" \/ (readsSheet /\ ~readerOk),
         source |-> IF sqlServed THEN "sql" ELSE "sheet",
         entries |-> IF sqlServed THEN MapSeq(toServiceDTO, findAll(sql.weekly))
                     ELSE IF readsSheet /\ readerOk THEN ReaderGet(caches.weekly, loaded)
                     ELSE <<>>,
         fedCalls |-> IF trySql THEN 1 ELSE 0,
         cache |-> IF readsSheet /\ readerOk THEN CacheAfterGet(caches.weekly, loaded)
                   ELSE caches.weekly]

\* a read-preferred call of the convergence point (getWeekOptions and
\* getWeeklyBusinessSummaryList pass its error on)
FetchWeeklyEntries(fed, fault) ==
    /\ service = "weekly" /\ ops < MaxOps
    /\ LET f == fetchWeeklyEntries(FALSE, fed, fault # "reader")
       IN  /\ caches' = [caches EXCEPT !.weekly = f.cache]
           /\ last' = Call("fetchWeeklyEntries", Undefined, [fed |-> fed, fault |-> fault],
                           IF f.raised THEN "Error" ELSE "ok",
                           IF f.raised THEN <<>> ELSE f.entries,
                           <<>>, f.fedCalls, {}, <<>>, FALSE)
    /\ ops' = ops + 1
    /\ UNCHANGED <<config, service, sheets, sql, weeklyRepo, written, pending>>

\* dateHelpers.getWeekInfo(weekId): the first and last day of a week it knows,
\* as date texts; nothing for another week id
WeekIds == {"2026-W04", "2026-W99"}
WeekInfo(weekId) ==
    IF weekId = "2026-W04" THEN [known |-> TRUE, first |-> 1, last |-> 2]
    ELSE [known |-> FALSE, first |-> 0, last |-> 0]
\* the date getEntriesForWeek filters on: entryDate, else the legacy key
FilterDate(entry) ==
    IF DateAt(entry, "entryDate") # NoDate THEN DateAt(entry, "entryDate")
    ELSE DateAt(entry, "zhDate")
InWeek(entry, week) ==
    /\ FilterDate(entry) # NoDate
    /\ TextOrder(FilterDate(entry)) >= week.first
    /\ TextOrder(FilterDate(entry)) <= week.last
\* the day of the week of an entry, -1 when its date is no yyyy-mm-dd text
DayOf(entry) == IF DateOf(DateAt(entry, "zhDate")) = NaN THEN -1 ELSE DateAt(entry, "zhDate")
WithDay(entry) == Spread(entry, [day |-> DayOf(entry)])
\* getEntriesForWeek(weekId): the entries of the week, latest first, each with
\* its day; an error of the fetch is answered with no entries
GetEntriesForWeek(weekId, fed, fault) ==
    /\ service = "weekly" /\ ops < MaxOps
    /\ LET f == fetchWeeklyEntries(FALSE, fed, fault # "reader")
           week == WeekInfo(weekId)
           entries == SelectSeq(f.entries, LAMBDA e : InWeek(e, week))
           sorted == SortBy(entries, "entryDate")
       IN  /\ caches' = [caches EXCEPT !.weekly = f.cache]
           /\ last' = Call("getEntriesForWeek", weekId, [fed |-> fed, fault |-> fault],
                           "ok",
                           IF f.raised \/ ~week.known THEN <<>>
                           ELSE [i \in 1..Len(sorted) |-> WithDay(sorted[i])],
                           <<>>, f.fedCalls, {}, <<>>, FALSE)
    /\ ops' = ops + 1
    /\ UNCHANGED <<config, service, sheets, sql, weeklyRepo, written, pending>>

\* createWeeklyBusinessEntry(data): the writer appends a row under an id it assigns
CreateWeeklyBusinessEntry(newId, content, fault) ==
    /\ service = "weekly" /\ ops < MaxOps
    /\ Len(sheets.weekly) < MaxRows
    /\ \A pos \in 1..Len(sheets.weekly) : sheets.weekly[pos].recordId # newId
    /\ LET ok == fault # "writer"
           row == [recordId |-> newId, summaryContent |-> content, entryDate |-> 1,
                   handleLost |-> FALSE]
       IN  /\ sheets' = IF ok THEN [sheets EXCEPT !.weekly = Append(@, row)] ELSE sheets
           /\ written' = IF ok THEN [written EXCEPT !.weekly = <<>>] ELSE written
           /\ last' = Call("createWeeklyBusinessEntry", newId, [fault |-> fault],
                           IF ok THEN "ok" ELSE "WriterError",
                           IF ok THEN Success ELSE <<>>,
                           <<[fn |-> "createEntry", handle |-> 0]>>, 0, {}, <<>>, ok)
    /\ ops' = ops + 1
    /\ UNCHANGED <<config, service, caches, sql, weeklyRepo, pending>>

\* updateWeeklyBusinessEntry(recordId, data) and deleteWeeklyBusinessEntry(recordId):
\* scan the sheet entries for the id, then one positional write
WeeklyWrite(op, recordId, content, fault) ==
    LET f == fetchWeeklyEntries(TRUE, "rows", fault # "reader")
        idx == FindIndex(LAMBDA e : Get(e, "recordId") = recordId, f.entries)
        target == IF idx = 0 THEN <<>> ELSE f.entries[idx]
        handle == IF idx = 0 THEN 0 ELSE RowIndexOf(target)
        outcome == IF f.raised THEN "Error"
                   ELSE IF idx = 0 THEN "NotFound"
                   ELSE IF WriterRefuses(sheets.weekly, handle, fault) THEN "WriterError"
                   ELSE "ok"
        pos == PosOf(handle)
        sheet == IF outcome # "ok" THEN sheets.weekly
                 ELSE IF op = "updateWeeklyBusinessEntry"
                      THEN [sheets.weekly EXCEPT ![pos].summaryContent = content]
                      ELSE RemoveAt(sheets.weekly, pos)
    IN  /\ sheets' = [sheets EXCEPT !.weekly = sheet]
        /\ caches' = [caches EXCEPT !.weekly = f.cache]
        /\ written' = IF outcome # "ok" THEN written
                      ELSE IF op = "updateWeeklyBusinessEntry"
                           THEN [written EXCEPT !.weekly = [id |-> recordId, val |-> content]]
                           ELSE [written EXCEPT !.weekly = <<>>]
        /\ last' = Call(op, recordId, [fault |-> fault], outcome,
                        IF outcome = "ok" THEN Success ELSE <<>>,
                        IF outcome \in {"ok", "WriterError"}
                        THEN <<[fn |-> IF op = "updateWeeklyBusinessEntry" THEN "updateEntryRow"
                                       ELSE "deleteEntryRow", handle |-> handle]>>
                        ELSE <<>>,
                        f.fedCalls, {}, target, sheet # sheets.weekly)

UpdateWeeklyBusinessEntry(recordId, content, fault) ==
    /\ service = "weekly" /\ ops < MaxOps
    /\ WeeklyWrite("updateWeeklyBusinessEntry", recordId, content, fault)
    /\ ops' = ops + 1
    /\ UNCHANGED <<config, service, sql, weeklyRepo, pending>>

DeleteWeeklyBusinessEntry(recordId, fault) ==
    /\ service = "weekly" /\ ops < MaxOps
    /\ WeeklyWrite("deleteWeeklyBusinessEntry", recordId, Undefined, fault)
    /\ ops' = ops + 1
    /\ UNCHANGED <<config, service, sql, weeklyRepo, pending>>

\* the federated table is fed from the sheet by a job outside the services
WeeklyReplica(sheet) ==
    [pos \in 1..Len(sheet) |->
        SqlRow(sheet[pos].recordId, sheet[pos].summaryContent, sheet[pos].entryDate)]
ReplicateWeekly ==
    /\ service = "weekly"
    /\ sql.weekly # WeeklyReplica(sheets.weekly)
    /\ sql' = [sql EXCEPT !.weekly = WeeklyReplica(sheets.weekly)]
    /\ UNCHANGED <<config, service, ops, sheets, caches, weeklyRepo, written, last, pending>>

\* ------------------------------------------------------------------------
\* the company list as the services read it (companyReader.getCompanyList)
\* ------------------------------------------------------------------------
CompanyEntry(sheet, pos) ==
    LET row == sheet[pos]
        dto == [companyId |-> row.companyId, companyName |-> row.companyName,
                phone |-> row.phone, county |-> TextAt(row, "county"),
                createdTime |-> row.createdTime]
    IN  IF row.handleLost THEN dto ELSE Spread(dto, [rowIndex |-> HandleOf(pos)])
CompanyLoad(sheet) == [pos \in 1..Len(sheet) |-> CompanyEntry(sheet, pos)]
\* new Map(allCompanies.map(c => [c.companyId, c.companyName])).get(id): the
\* last company under the id wins
CompanyNameOf(companies, id) ==
    LET hits == {i \in 1..Len(companies) : companies[i].companyId = id}
    IN  IF hits = {} THEN <<>>
        ELSE companies[CHOOSE i \in hits : \A j \in hits : j <= i].companyName

\* ------------------------------------------------------------------------
\* ContactService (src/services/contact-service.js 329-665)
\* ------------------------------------------------------------------------
\* config.PAGINATION.CONTACTS_PER_PAGE of the default configuration
ContactsPerPage == 20
ContactEntry(sheet, pos) ==
    LET row == sheet[pos]
        dto == [contactId |-> row.contactId, name |-> row.name,
                companyId |-> row.companyId, position |-> row.position]
    IN  IF row.handleLost THEN dto ELSE Spread(dto, [rowIndex |-> HandleOf(pos)])
ContactLoad(sheet) == [pos \in 1..Len(sheet) |-> ContactEntry(sheet, pos)]
\* the federated contacts: the same records, never with a row handle
ContactReplica(sheet) ==
    [pos \in 1..Len(sheet) |-> [contactId |-> sheet[pos].contactId, name |-> sheet[pos].name,
                               companyId |-> sheet[pos].companyId,
                               position |-> sheet[pos].position]]
\* potential contacts (contactReader.getContacts): raw rows, each with its handle
PotentialLoad(sheet) ==
    [pos \in 1..Len(sheet) |-> Spread(sheet[pos], [rowIndex |-> HandleOf(pos)])]

\* the inner try of searchOfficialContacts on sqlReader.getContacts()'s answer:
\* a value that is no array is turned into an error, and every error is caught
contactSqlAttempt(fed) == IF fed = "rows" THEN "served" ELSE "caught"

\* the in-memory join: a copy of the contact with companyName attached, the
\* company id standing for the name of a company the list does not have
JoinCompanyName(companies, contact) ==
    LET found == CompanyNameOf(companies, contact.companyId)
    IN  Spread(contact, [companyName |-> IF Truthy(found) THEN found
                                         ELSE <<contact.companyId>>])
\* the query filter on name and companyName
ContactMatches(c, query) ==
    \/ (TruthyAt(c, "name") /\ Includes(Lower(c.name), Lower(query)))
    \/ (TruthyAt(c, "companyName") /\ Includes(Lower(c.companyName), Lower(query)))
RECURSIVE SelectSeq2(_, _, _)
SelectSeq2(s, P(_, _), q) ==
    IF s = <<>> THEN <<>>
    ELSE (IF P(Head(s), q) THEN <<Head(s)>> ELSE <<>>) \o SelectSeq2(Tail(s), P, q)
\* Array.prototype.slice(start, end) with 0-based bounds
Slice(s, start, end) ==
    LET lo == IF start < Len(s) THEN start + 1 ELSE Len(s) + 1
        hi == IF end < Len(s) THEN end ELSE Len(s)
    IN  SubSeq(s, lo, hi)
CeilDiv(n, d) == (n + d - 1) \div d
\* the envelope with the number of full pages as its total
PaginateFullPages(items, page, pageSize) ==
    LET startIndex == (page - 1) * pageSize
    IN  [data |-> Slice(items, startIndex, startIndex + pageSize),
         pagination |-> [current |-> page, total |-> Len(items) \div pageSize,
                         totalItems |-> Len(items),
                         hasNext |-> (startIndex + pageSize) < Len(items),
                         hasPrev |-> page > 1]]
\* the page of a list and its envelope
Paginate(items, page, pageSize) ==
    LET startIndex == (page - 1) * pageSize
    IN  [data |-> Slice(items, startIndex, startIndex + pageSize),
         pagination |-> [current |-> page, total |-> CeilDiv(Len(items), pageSize),
                         totalItems |-> Len(items),
                         hasNext |-> (startIndex + pageSize) < Len(items),
                         hasPrev |-> page > 1]]

\* the page size: the configured one, else the one of the default configuration
contactPageSize ==
    IF config.contactsPerPage # 0 THEN config.contactsPerPage ELSE ContactsPerPage

\* searchOfficialContacts(query, page) as a function of the stores: federated
\* first, the sheet on any failure; its outcome, its answer and the caches it leaves
searchOfficialContacts(query, page, fed, fault) ==
    LET attempt == contactSqlAttempt(fed)
        served == attempt = "served"
        readsSheet == attempt = "caught"
        listOk == served \/ (readsSheet /\ fault # "reader")
        loaded == ContactLoad(sheets.contactList)
        allContacts == IF served THEN sql.contactList
                       ELSE ReaderGet(caches.contactList, loaded)
        companiesRead == listOk
        companiesOk == companiesRead /\ fault # "companyReader"
        companyRows == CompanyLoad(sheets.companyList)
        allCompanies == ReaderGet(caches.companyList, companyRows)
        joined == [i \in 1..Len(allContacts) |-> JoinCompanyName(allCompanies, allContacts[i])]
        filtered == IF Truthy(query) THEN SelectSeq2(joined, ContactMatches, query)
                    ELSE joined
    IN  [outcome |-> IF companiesOk THEN "ok" ELSE "Error",
         result |-> IF companiesOk THEN Paginate(filtered, page, contactPageSize)
                    ELSE <<>>,
         caches |-> [caches EXCEPT
                 !.contactList = IF readsSheet /\ fault # "reader"
                                 THEN CacheAfterGet(@, loaded) ELSE @,
                 !.companyList = IF companiesOk THEN CacheAfterGet(@, companyRows) ELSE @]]
SearchOfficialContacts(query, page, fed, fault) ==
    /\ service = "contact" /\ ops < MaxOps
    /\ LET answer == searchOfficialContacts(query, page, fed, fault)
       IN  /\ caches' = answer.caches
           /\ last' = Call("searchOfficialContacts", query,
                           [fed |-> fed, fault |-> fault, page |-> page, fetchAll |-> FALSE,
                            pageSize |-> contactPageSize],
                           answer.outcome, answer.result, <<>>, 1, {}, <<>>, FALSE)
    /\ ops' = ops + 1
    /\ UNCHANGED <<config, service, sheets, sql, weeklyRepo, written, pending>>

\* an id as the text it is searched by
IdText(id) == <<id>>
\* sqlReader.getContactById(contactId): the stored contact of that id, null when
\* there is none
sqlContactById(contactId) ==
    SelectSeq(sql.contactList, LAMBDA c : c.contactId = contactId)
\* the inner try of getContactById: an answer of null is turned into an error,
\* and every error is caught
contactByIdAttempt(raw, byId) == IF byId = "answer" /\ raw # <<>> THEN "served" ELSE "caught"
\* getContactById(contactId): the federated contact joined with its company's
\* name; on any failure the first page of the search for the id, and of that
\* page the contact of that id; null when that fails too
GetContactById(contactId, byId, fed, fault) ==
    /\ service = "contact" /\ ops < MaxOps
    /\ LET raw == sqlContactById(contactId)
           served == contactByIdAttempt(raw, byId) = "served"
           companiesOk == fault # "companyReader"
           companyRows == CompanyLoad(sheets.companyList)
           allCompanies == ReaderGet(caches.companyList, companyRows)
           contact == IF companiesOk /\ raw[1].companyId # Undefined
                      THEN JoinCompanyName(allCompanies, raw[1]) ELSE raw[1]
           answer == searchOfficialContacts(IdText(contactId), 1, fed, fault)
           found == IF answer.outcome = "ok"
                    THEN SelectSeq(answer.result.data, LAMBDA c : c.contactId = contactId)
                    ELSE <<>>
       IN  /\ caches' = IF served
                        THEN [caches EXCEPT !.companyList =
                                 IF companiesOk THEN CacheAfterGet(@, companyRows) ELSE @]
                        ELSE answer.caches
           /\ last' = Call("getContactById", contactId,
                           [byId |-> byId, fed |-> fed, fault |-> fault,
                            fallback |-> ~served],
                           "ok",
                           IF served THEN <<contact>>
                           ELSE IF found # <<>> THEN <<found[1]>> ELSE <<>>,
                           <<>>, 1, {}, <<>>, FALSE)
    /\ ops' = ops + 1
    /\ UNCHANGED <<config, service, sheets, sql, weeklyRepo, written, pending>>

\* getPotentialContacts(limit) as a function of the reader's answer: the rows
\* with a name or a company, latest first, the first limit of them
potentialContacts(contacts, limit) ==
    LET named == SelectSeq(contacts, LAMBDA c : TruthyAt(c, "name") \/ TruthyAt(c, "company"))
        sorted == SortBy(named, "createdTime")
    IN  IF limit > 0 THEN Slice(sorted, 0, limit) ELSE sorted
GetPotentialContacts(limit, fault) ==
    /\ service = "contact" /\ ops < MaxOps
    /\ LET readerOk == fault # "reader"
       IN  /\ caches' = IF readerOk
                        THEN [caches EXCEPT !.contacts =
                                 CacheAfterGet(@, PotentialLoad(sheets.contacts))]
                        ELSE caches
           /\ last' = Call("getPotentialContacts", limit, [fault |-> fault],
                           IF readerOk THEN "ok" ELSE "Error",
                           IF readerOk THEN potentialContacts(ReaderGet(caches.contacts, PotentialLoad(sheets.contacts)), limit)
                           ELSE <<>>,
                           <<>>, 0, {}, <<>>, FALSE)
    /\ ops' = ops + 1
    /\ UNCHANGED <<config, service, sheets, sql, weeklyRepo, written, pending>>

\* searchContacts(query): the potential contacts whose name or company has the query
SearchLimit == 9999
PotentialMatches(c, query) ==
    \/ (TruthyAt(c, "name") /\ Includes(Lower(c.name), Lower(query)))
    \/ (TruthyAt(c, "company") /\ Includes(Lower(c.company), Lower(query)))
SearchContacts(query, fault) ==
    /\ service = "contact" /\ ops < MaxOps
    /\ LET readerOk == fault # "reader"
           contacts == potentialContacts(ReaderGet(caches.contacts, PotentialLoad(sheets.contacts)), SearchLimit)
           filtered == IF Truthy(query) THEN SelectSeq2(contacts, PotentialMatches, query)
                       ELSE contacts
       IN  /\ caches' = IF readerOk
                        THEN [caches EXCEPT !.contacts =
                                 CacheAfterGet(@, PotentialLoad(sheets.contacts))]
                        ELSE caches
           /\ last' = Call("searchContacts", query, [fault |-> fault],
                           IF readerOk THEN "ok" ELSE "Error",
                           IF readerOk THEN [data |-> filtered] ELSE <<>>,
                           <<>>, 0, {}, <<>>, FALSE)
    /\ ops' = ops + 1
    /\ UNCHANGED <<config, service, sheets, sql, weeklyRepo, written, pending>>

\* the two checks of updateContact on the contact it looked up: idx is its place
\* in the list (0 for none), rowIndex its handle (0 for none)
updateContactLookupNoNotFound(idx, rowIndex) ==
    IF rowIndex = 0 THEN "Integrity" ELSE "found"
updateContactLookup(idx, rowIndex) ==
    IF idx = 0 THEN "NotFound" ELSE IF rowIndex = 0 THEN "Integrity" ELSE "found"

\* updateContact(contactId, updateData, user): scan the contact list for the id,
\* one positional write, then the cache of the list is invalidated
UpdateContact(contactId, position, fault) ==
    /\ service = "contact" /\ ops < MaxOps
    /\ LET readerOk == fault # "reader"
           loaded == ContactLoad(sheets.contactList)
           allContacts == IF readerOk THEN ReaderGet(caches.contactList, loaded) ELSE <<>>
           idx == FindIndex(LAMBDA c : c.contactId = contactId, allContacts)
           target == IF idx = 0 THEN <<>> ELSE allContacts[idx]
           rowIndex == IF idx = 0 THEN 0 ELSE RowIndexOf(target)
           lookup == updateContactLookup(idx, rowIndex)
           outcome == IF ~readerOk THEN "Error"
                      ELSE IF lookup # "found" THEN lookup
                      ELSE IF WriterRefuses(sheets.contactList, rowIndex, fault) THEN "WriterError"
                      ELSE "ok"
           sheet == IF outcome = "ok"
                    THEN [sheets.contactList EXCEPT ![PosOf(rowIndex)].position = position]
                    ELSE sheets.contactList
       IN  /\ sheets' = [sheets EXCEPT !.contactList = sheet]
           /\ caches' = [caches EXCEPT !.contactList =
                            IF outcome = "ok" THEN NoCache
                            ELSE IF readerOk THEN CacheAfterGet(@, loaded) ELSE @]
           /\ written' = IF outcome = "ok"
                         THEN [written EXCEPT !.contactList = [id |-> contactId, val |-> position]]
                         ELSE written
           /\ last' = Call("updateContact", contactId, [fault |-> fault], outcome,
                           IF outcome = "ok" THEN Success ELSE <<>>,
                           IF outcome \in {"ok", "WriterError"}
                           THEN <<[fn |-> "updateContactRow", handle |-> rowIndex]>> ELSE <<>>,
                           0, IF outcome = "ok" THEN {"contactList"} ELSE {},
                           target, sheet # sheets.contactList)
    /\ ops' = ops + 1
    /\ UNCHANGED <<config, service, sql, weeklyRepo, pending>>

\* the notes line updatePotentialContact builds: [modifier date] notes
NoteEntry(notes) == <<"[", "m", " ", "d", "]", " ">> \o notes
\* the merge of updatePotentialContact: caller fields over the record's, and the
\* notes appended after the old ones when updateData.notes is truthy
MergePotential(target, updateData) ==
    LET merged == Spread(target, updateData)
        oldNotes == IF TruthyAt(target, "notes") THEN target.notes ELSE <<>>
    IN  IF TruthyAt(updateData, "notes")
        THEN [merged EXCEPT !.notes = IF oldNotes # <<>>
                                      THEN oldNotes \o <<"\n">> \o NoteEntry(updateData.notes)
                                      ELSE NoteEntry(updateData.notes)]
        ELSE merged
\* what writePotentialContactRow stores of the merged record
PotentialRow(merged) ==
    [name |-> merged.name, company |-> merged.company, position |-> merged.position,
     notes |-> merged.notes]

\* the updateData a caller passes: another field only, empty notes, new notes
UpdateDatas == {[position |-> ValName[2]], [notes |-> <<>>], [notes |-> <<"n">>]}

\* updatePotentialContact(rowIndex, updateData, modifier): read, merge, write the
\* row at the caller's rowIndex, invalidate the cache of the raw contacts
UpdatePotentialContact(rowIndex, updateData, fault) ==
    /\ service = "contact" /\ ops < MaxOps
    /\ LET readerOk == fault # "reader"
           loaded == PotentialLoad(sheets.contacts)
           allContacts == IF readerOk THEN ReaderGet(caches.contacts, loaded) ELSE <<>>
           idx == FindIndex(LAMBDA c : c.rowIndex = rowIndex, allContacts)
           target == IF idx = 0 THEN <<>> ELSE allContacts[idx]
           mergedData == IF idx = 0 THEN <<>> ELSE MergePotential(target, updateData)
           outcome == IF ~readerOk THEN "Error"
                      ELSE IF idx = 0 THEN "NotFound"
                      ELSE IF WriterRefuses(sheets.contacts, rowIndex, fault) THEN "WriterError"
                      ELSE "ok"
           sheet == IF outcome = "ok"
                    THEN [sheets.contacts EXCEPT ![PosOf(rowIndex)] = PotentialRow(mergedData)]
                    ELSE sheets.contacts
       IN  /\ sheets' = [sheets EXCEPT !.contacts = sheet]
           /\ caches' = [caches EXCEPT !.contacts =
                            IF outcome = "ok" THEN NoCache
                            ELSE IF readerOk THEN CacheAfterGet(@, loaded) ELSE @]
           /\ last' = Call("updatePotentialContact", rowIndex,
                           [fault |-> fault, updateData |-> updateData], outcome,
                           IF outcome = "ok" THEN Success ELSE <<>>,
                           IF outcome \in {"ok", "WriterError"}
                           THEN <<[fn |-> "writePotentialContactRow", handle |-> rowIndex,
                                   data |-> mergedData]>>
                           ELSE <<>>,
                           0, IF outcome = "ok" THEN {"contacts"} ELSE {},
                           target, sheet # sheets.contacts)
    /\ ops' = ops + 1
    /\ UNCHANGED <<config, service, sql, weeklyRepo, written, pending>>

\* the federated contacts are fed from the sheet by a job outside the services
ReplicateContacts ==
    /\ service = "contact"
    /\ sql.contactList # ContactReplica(sheets.contactList)
    /\ sql' = [sql EXCEPT !.contactList = ContactReplica(sheets.contactList)]
    /\ UNCHANGED <<config, service, ops, sheets, caches, weeklyRepo, written, last, pending>>

\* ------------------------------------------------------------------------
\* the other collections as their readers deliver them
\* ------------------------------------------------------------------------
\* opportunityReader.getOpportunities(): every record with its row handle
OpportunityLoad(sheet) ==
    [pos \in 1..Len(sheet) |-> Spread(sheet[pos], [rowIndex |-> HandleOf(pos)])]
\* interactions, event logs and opportunity-contact links carry no handle here
PlainLoad(sheet) == sheet
Load(key) ==
    CASE key = "weekly" -> WeeklyLoad(sheets.weekly)
      [] key = "contactList" -> ContactLoad(sheets.contactList)
      [] key = "contacts" -> PotentialLoad(sheets.contacts)
      [] key = "companyList" -> CompanyLoad(sheets.companyList)
      [] key = "opportunities" -> OpportunityLoad(sheets.opportunities)
      [] OTHER -> PlainLoad(sheets[key])
\* what a reader answers for a collection, and the caches after a set of reads
Read(key) == ReaderGet(caches[key], Load(key))
\* the answer when the read succeeds, nothing to work on when it raises
ReadIf(ok, key) == IF ok THEN Read(key) ELSE <<>>
AfterReads(cs, keys) ==
    [k \in Keys |-> IF k \in keys THEN CacheAfterGet(cs[k], Load(k)) ELSE cs[k]]
Invalidate(cs, key) == [cs EXCEPT ![key] = NoCache]

\* ------------------------------------------------------------------------
\* CompanyService (src/services/company-service.js)
\* ------------------------------------------------------------------------
SuffixFull == <<"gu", "fen", "you", "xian", "gong", "si">>
SuffixLimited == <<"you", "xian", "gong", "si">>
SuffixCompany == <<"gong", "si">>
\* .replace(/SuffixFull|SuffixLimited|SuffixCompany/g, ''): left to right, the
\* first alternative that matches at a position is removed
RECURSIVE StripSuffixes(_)
StripSuffixes(text) ==
    IF text = <<>> THEN <<>>
    ELSE IF StartsWith(text, SuffixFull)
         THEN StripSuffixes(SubSeq(text, Len(SuffixFull) + 1, Len(text)))
    ELSE IF StartsWith(text, SuffixLimited)
         THEN StripSuffixes(SubSeq(text, Len(SuffixLimited) + 1, Len(text)))
    ELSE IF StartsWith(text, SuffixCompany)
         THEN StripSuffixes(SubSeq(text, Len(SuffixCompany) + 1, Len(text)))
    ELSE <<Head(text)>> \o StripSuffixes(Tail(text))
\* .replace(/\(.*\)/g, ''): from the first "(" that has a ")" after it up to
\* the last ")"
StripParens(text) ==
    LET opens == {i \in 1..Len(text) : text[i] = "(" /\ \E j \in (i + 1)..Len(text) : text[j] = ")"}
    IN  IF opens = {} THEN text
        ELSE LET i == CHOOSE o \in opens : \A o2 \in opens : o <= o2
                 j == CHOOSE c \in (i + 1)..Len(text) :
                         text[c] = ")" /\ \A c2 \in (c + 1)..Len(text) : text[c2] # ")"
             IN  SubSeq(text, 1, i - 1) \o SubSeq(text, j + 1, Len(text))
normalizeCompanyName(name) ==
    IF ~Truthy(name) THEN <<>> ELSE Trim(StripParens(StripSuffixes(Trim(Lower(name)))))

\* the writer of audit entries (interactionWriter.createInteraction)
AuditEntry(companyId, opportunityId, title) ==
    [interactionId |-> IdName[Len(sheets.interactions) + 1], companyId |-> companyId,
     opportunityId |-> opportunityId, eventTitle |-> title, interactionTime |-> 9]
AuditCall(failed) == [fn |-> "createInteraction", handle |-> 0, failed |-> failed]
\* _logCompanyInteraction: the entry is written, or its failure is swallowed
logInteraction(fault) == IF fault = "audit" THEN "swallowed" ELSE "logged"

\* _findCompanyRowIndex(companyName) on the list the reader answers
findCompanyIndex(companies, companyName) ==
    FindIndex(LAMBDA c : \/ c.companyName = companyName
                         \/ normalizeCompanyName(c.companyName)
                              = normalizeCompanyName(companyName), companies)
\* the company getCompanyDetails finds
detailsCompanyIndex(companies, companyName) ==
    FindIndex(LAMBDA c : normalizeCompanyName(c.companyName)
                           = normalizeCompanyName(companyName), companies)
\* the opportunities of a company name (deleteCompany's guard, getCompanyDetails)
RelatedOpportunitiesByRawName(opps, companyName) ==
    SelectSeq(opps, LAMBDA o : o.customerCompany = companyName)
RelatedOpportunities(opps, companyName) ==
    SelectSeq(opps, LAMBDA o : normalizeCompanyName(o.customerCompany)
                                 = normalizeCompanyName(companyName))
DetailKeys == {"companyList", "contactList", "opportunities", "interactions", "eventLogs",
               "contacts"}

\* an interaction or event log of a company: under its id, or under the id of
\* one of its opportunities
OfCompany(item, companyInfo, opportunities) ==
    \/ item.companyId = companyInfo.companyId
    \/ /\ item.opportunityId # Undefined /\ item.opportunityId # EmptyStr
       /\ \E i \in 1..Len(opportunities) : opportunities[i].opportunityId = item.opportunityId
\* getCompanyDetails(companyName)
GetCompanyDetails(companyName, fault) ==
    /\ service = "company" /\ ops < MaxOps
    /\ LET readerOk == fault # "reader"
           companies == ReadIf(readerOk, "companyList")
           idx == detailsCompanyIndex(companies, companyName)
           companyInfo == IF idx = 0 THEN <<>> ELSE companies[idx]
           opportunities == RelatedOpportunities(Read("opportunities"), companyName)
           result == IF idx = 0 THEN [companyInfo |-> <<>>, contacts |-> <<>>,
                                      opportunities |-> <<>>, potentialContacts |-> <<>>,
                                      interactions |-> <<>>, eventLogs |-> <<>>]
                     ELSE [companyInfo |-> companyInfo,
                           contacts |-> SelectSeq(Read("contactList"),
                                           LAMBDA c : c.companyId = companyInfo.companyId),
                           opportunities |-> opportunities,
                           potentialContacts |->
                               SelectSeq(Read("contacts"),
                                   LAMBDA pc : normalizeCompanyName(pc.company)
                                                 = normalizeCompanyName(companyName)),
                           interactions |->
                               SortBy(SelectSeq(Read("interactions"),
                                          LAMBDA i : OfCompany(i, companyInfo, opportunities)),
                                      "interactionOrEpoch"),
                           eventLogs |->
                               SortBy(SelectSeq(Read("eventLogs"),
                                          LAMBDA e : OfCompany(e, companyInfo, opportunities)),
                                      "createdOrEpoch")]
       IN  /\ caches' = IF readerOk THEN AfterReads(caches, DetailKeys) ELSE caches
           /\ last' = Call("getCompanyDetails", companyName, [fault |-> fault],
                           IF readerOk THEN "ok" ELSE "Error",
                           IF readerOk THEN result ELSE <<>>, <<>>, 0, {}, companyInfo, FALSE)
    /\ ops' = ops + 1
    /\ UNCHANGED <<config, service, sheets, sql, weeklyRepo, written, pending>>

\* updateCompany(companyName, updateData, user)
UpdateCompany(companyName, phone, fault) ==
    /\ service = "company" /\ ops < MaxOps
    /\ LET readerOk == fault # "reader"
           companies == ReadIf(readerOk, "companyList")
           found == detailsCompanyIndex(companies, companyName)
           idx == findCompanyIndex(companies, companyName)
           target == IF idx = 0 THEN <<>> ELSE companies[idx]
           rowIndex == IF idx = 0 THEN 0 ELSE RowIndexOf(target)
           outcome == IF ~readerOk THEN "Error"
                      ELSE IF found = 0 \/ idx = 0 THEN "NotFound"
                      ELSE IF rowIndex = 0 THEN "Integrity"
                      ELSE IF WriterRefuses(sheets.companyList, rowIndex, fault)
                           THEN "WriterError"
                      ELSE IF logInteraction(fault) = "thrown" THEN "AuditError"
                      ELSE "ok"
           wrote == outcome \in {"ok", "AuditError"}
           logged == wrote /\ logInteraction(fault) = "logged"
           sheet == IF wrote
                    THEN [sheets.companyList EXCEPT ![PosOf(rowIndex)].phone = phone]
                    ELSE sheets.companyList
           audit == IF logged
                    THEN Append(sheets.interactions,
                                AuditEntry(companies[found].companyId, Undefined, "update"))
                    ELSE sheets.interactions
           read == IF readerOk THEN AfterReads(caches, DetailKeys) ELSE caches
       IN  /\ sheets' = [sheets EXCEPT !.companyList = sheet, !.interactions = audit]
           /\ caches' = IF outcome = "ok" THEN Invalidate(read, "companyList") ELSE read
           /\ last' = Call("updateCompany", companyName, [fault |-> fault], outcome,
                           IF outcome = "ok" THEN Success ELSE <<>>,
                           (IF outcome \in {"ok", "WriterError", "AuditError"}
                            THEN <<[fn |-> "updateCompany", handle |-> rowIndex]>> ELSE <<>>)
                           \o (IF wrote THEN <<AuditCall(~logged)>> ELSE <<>>),
                           0, IF outcome = "ok" THEN {"companyList"} ELSE {},
                           target, sheet # sheets.companyList)
    /\ ops' = ops + 1
    /\ UNCHANGED <<config, service, sql, weeklyRepo, written, pending>>

\* deleteCompany(companyName, user): the guard on related opportunities first
DeleteCompany(companyName, fault) ==
    /\ service = "company" /\ ops < MaxOps
    /\ LET readerOk == fault # "reader"
           related == RelatedOpportunities(ReadIf(readerOk, "opportunities"), companyName)
           guarded == readerOk /\ related # <<>>
           companies == ReadIf(readerOk, "companyList")
           idx == findCompanyIndex(companies, companyName)
           target == IF idx = 0 THEN <<>> ELSE companies[idx]
           rowIndex == IF idx = 0 THEN 0 ELSE RowIndexOf(target)
           outcome == IF ~readerOk THEN "Error"
                      ELSE IF guarded THEN "HasOpportunities"
                      ELSE IF idx = 0 THEN "NotFound"
                      ELSE IF rowIndex = 0 THEN "Integrity"
                      ELSE IF WriterRefuses(sheets.companyList, rowIndex, fault)
                           THEN "WriterError"
                      ELSE "ok"
           sheet == IF outcome = "ok" THEN RemoveAt(sheets.companyList, PosOf(rowIndex))
                    ELSE sheets.companyList
           read == IF ~readerOk THEN caches
                   ELSE IF guarded THEN AfterReads(caches, {"opportunities"})
                   ELSE AfterReads(caches, {"opportunities", "companyList"})
       IN  /\ sheets' = [sheets EXCEPT !.companyList = sheet]
           /\ caches' = IF outcome = "ok" THEN Invalidate(read, "companyList") ELSE read
           /\ last' = Call("deleteCompany", companyName, [fault |-> fault], outcome,
                           IF outcome = "ok" THEN Success ELSE <<>>,
                           IF outcome \in {"ok", "WriterError"}
                           THEN <<[fn |-> "deleteCompany", handle |-> rowIndex]>> ELSE <<>>,
                           0, IF outcome = "ok" THEN {"companyList"} ELSE {},
                           target, sheet # sheets.companyList)
    /\ ops' = ops + 1
    /\ UNCHANGED <<config, service, sql, weeklyRepo, written, pending>>

\* createCompany(companyName, companyData, user): an equivalent name is answered
\* with the existing company, a new one is appended by the writer
CreateCompany(newId, companyName, fault) ==
    /\ service = "company" /\ ops < MaxOps
    /\ Len(sheets.companyList) < MaxRows
    /\ \A i \in 1..Len(sheets.companyList) : sheets.companyList[i].companyId # newId
    /\ LET readerOk == fault # "reader"
           companies == ReadIf(readerOk, "companyList")
           idx == detailsCompanyIndex(companies, companyName)
           outcome == IF ~readerOk THEN "Error"
                      ELSE IF idx # 0 THEN "existed"
                      ELSE IF fault = "writer" THEN "WriterError"
                      ELSE "ok"
           row == [companyId |-> newId, companyName |-> companyName, phone |-> ValName[1],
                   createdTime |-> 1, handleLost |-> FALSE]
           sheet == IF outcome = "ok" THEN Append(sheets.companyList, row)
                    ELSE sheets.companyList
           read == IF readerOk THEN AfterReads(caches, {"companyList"}) ELSE caches
       IN  /\ sheets' = [sheets EXCEPT !.companyList = sheet]
           /\ caches' = IF outcome = "ok" THEN Invalidate(read, "companyList") ELSE read
           /\ last' = Call("createCompany", companyName, [fault |-> fault], outcome,
                           IF outcome = "ok" THEN [success |-> TRUE, id |-> newId]
                           ELSE IF outcome = "existed"
                                THEN [success |-> TRUE, id |-> companies[idx].companyId,
                                      existed |-> TRUE, data |-> companies[idx]]
                           ELSE <<>>,
                           IF outcome \in {"ok", "WriterError"}
                           THEN <<[fn |-> "createCompany", handle |-> 0]>> ELSE <<>>,
                           0, IF outcome = "ok" THEN {"companyList"} ELSE {},
                           <<>>, sheet # sheets.companyList)
    /\ ops' = ops + 1
    /\ UNCHANGED <<config, service, sql, weeklyRepo, written, pending>>

\* Array.prototype.sort with the comparator b.key - a.key: stable, descending
RECURSIVE InsertDesc(_, _, _)
InsertDesc(sorted, x, key) ==
    IF sorted = <<>> THEN <<x>>
    ELSE IF Head(sorted)[key] >= x[key] THEN <<Head(sorted)>> \o InsertDesc(Tail(sorted), x, key)
    ELSE <<x>> \o sorted
RECURSIVE SortDesc(_, _)
SortDesc(s, key) ==
    IF s = <<>> THEN <<>>
    ELSE InsertDesc(SortDesc(SubSeq(s, 1, Len(s) - 1), key), s[Len(s)], key)
Max(S) == CHOOSE x \in S : \A y \in S : y <= x
\* the date of an interaction in the activity scan: interactionTime || date
ActivityDate(item) ==
    IF DateAt(item, "interactionTime") # NoDate THEN DateAt(item, "interactionTime")
    ELSE DateAt(item, "date")
\* the last activity of a company: the latest valid time of its interactions and
\* event logs, else the time it was created when that is valid, else none (0,
\* which is also what it sorts by)
LastActivity(comp, interactions, eventLogs) ==
    LET times == {DateOf(ActivityDate(interactions[i])) :
                     i \in {j \in 1..Len(interactions) :
                               interactions[j].companyId = comp.companyId}}
                 \cup {DateOf(DateAt(eventLogs[i], "createdTime")) :
                         i \in {j \in 1..Len(eventLogs) :
                                   eventLogs[j].companyId = comp.companyId}}
        lastTs == Max({t \in times : t # NaN /\ t > 0} \cup {0})
    IN  IF lastTs # 0 THEN lastTs
        ELSE IF DateOf(DateAt(comp, "createdTime")) # NaN THEN comp.createdTime
        ELSE 0
WithActivity(comp, interactions, eventLogs) ==
    Spread(comp, [lastActivity |-> LastActivity(comp, interactions, eventLogs)])

\* the text search of getCompanyListWithActivity on five fields, the query
\* lower-cased and trimmed
CompanyMatches(c, q) ==
    \/ Includes(Lower(TextAt(c, "companyName")), q)
    \/ Includes(TextAt(c, "phone"), q)
    \/ Includes(Lower(TextAt(c, "address")), q)
    \/ Includes(Lower(TextAt(c, "county")), q)
    \/ Includes(Lower(TextAt(c, "introduction")), q)
\* getCompanyListWithActivity(filters) with filters.q: copies of the companies
\* that match, with lastActivity, latest first; the raw list when a read of the
\* activity fails
GetCompanyListWithActivity(q, fault) ==
    /\ service = "company" /\ ops < MaxOps
    /\ LET listOk == fault # "reader"
           activityOk == fault # "activityReader"
           companiesRaw == Read("companyList")
           companies == IF Truthy(q)
                        THEN SelectSeq2(companiesRaw, CompanyMatches, Trim(Lower(q)))
                        ELSE companiesRaw
           interactions == Read("interactions")
           eventLogs == Read("eventLogs")
           result == SortDesc([i \in 1..Len(companies) |->
                                  WithActivity(companies[i], interactions, eventLogs)],
                              "lastActivity")
       IN  /\ caches' = IF ~listOk THEN caches
                        ELSE IF ~activityOk THEN AfterReads(caches, {"companyList"})
                        ELSE AfterReads(caches, {"companyList", "interactions", "eventLogs"})
           /\ last' = Call("getCompanyListWithActivity", q, [fault |-> fault],
                           IF listOk THEN "ok" ELSE "Error",
                           IF ~listOk THEN <<>> ELSE IF activityOk THEN result
                           ELSE companiesRaw,
                           <<>>, 0, {}, <<>>, FALSE)
    /\ ops' = ops + 1
    /\ UNCHANGED <<config, service, sheets, sql, weeklyRepo, written, pending>>

\* ------------------------------------------------------------------------
\* OpportunityService (src/services/weekly-business-service.js 441-1003)
\* ------------------------------------------------------------------------
\* the company names of the opportunity service are normalised as the company
\* service normalises them
opportunityNormalizeCompanyName(name) ==
    IF ~Truthy(name) THEN <<>> ELSE Trim(StripParens(StripSuffixes(Trim(Lower(name)))))
\* _logOpportunityInteraction: the entry is written, or its failure is swallowed
logOpportunityInteractionRethrows(fault) == IF fault = "audit" THEN "thrown" ELSE "logged"
logOpportunityInteraction(fault) == IF fault = "audit" THEN "swallowed" ELSE "logged"
\* the inner try of deleteOpportunity around the company lookup and the entry
logDeletion(fault) == IF fault = "audit" THEN "swallowed" ELSE "logged"

\* createOpportunity(opportunityData, user): handed to the writer as it is; the
\* writer appends the row under an id it assigns
CreateOpportunity(newId, opportunityData, fault) ==
    /\ service = "opportunity" /\ ops < MaxOps
    /\ Len(sheets.opportunities) < MaxRows
    /\ LET ok == fault # "writer"
           row == Spread(opportunityData, [opportunityId |-> newId])
           sheet == IF ok THEN Append(sheets.opportunities, row) ELSE sheets.opportunities
       IN  /\ sheets' = [sheets EXCEPT !.opportunities = sheet]
           /\ last' = Call("createOpportunity", newId, [fault |-> fault],
                           IF ok THEN "ok" ELSE "WriterError",
                           IF ok THEN Success ELSE <<>>,
                           <<[fn |-> "createOpportunity", handle |-> 0]>>, 0, {}, <<>>, ok)
    /\ ops' = ops + 1
    /\ UNCHANGED <<config, service, caches, sql, weeklyRepo, written, pending>>

\* batchUpdateOpportunities(updates): handed to the writer as it is; the writer
\* applies each update at its row handle and refuses the batch when a handle
\* addresses no row
RECURSIVE ApplyUpdates(_, _)
ApplyUpdates(sheet, updates) ==
    IF updates = <<>> THEN sheet
    ELSE ApplyUpdates([sheet EXCEPT ![PosOf(Head(updates).rowIndex)] =
                                        Spread(@, Head(updates).data)],
                      Tail(updates))
BatchUpdateOpportunities(updates, fault) ==
    /\ service = "opportunity" /\ ops < MaxOps
    /\ LET refused == \/ fault = "writer"
                      \/ \E i \in 1..Len(updates) :
                            ~Addressable(sheets.opportunities, updates[i].rowIndex)
           sheet == IF refused THEN sheets.opportunities
                    ELSE ApplyUpdates(sheets.opportunities, updates)
       IN  /\ sheets' = [sheets EXCEPT !.opportunities = sheet]
           /\ last' = Call("batchUpdateOpportunities", updates, [fault |-> fault],
                           IF refused THEN "WriterError" ELSE "ok",
                           IF refused THEN <<>> ELSE Success,
                           <<[fn |-> "batchUpdateOpportunities", handle |-> 0]>>, 0, {},
                           <<>>, sheet # sheets.opportunities)
    /\ ops' = ops + 1
    /\ UNCHANGED <<config, service, caches, sql, weeklyRepo, written, pending>>

\* the logs updateOpportunity collects: one line per changed audited field
UpdateLogs(original, updateData) ==
    (IF /\ "currentStage" \in DOMAIN updateData
        /\ updateData.currentStage # EmptyStr /\ original.currentStage # EmptyStr
        /\ updateData.currentStage # original.currentStage
     THEN <<"stage">> ELSE <<>>)
    \o (IF /\ "assignee" \in DOMAIN updateData
           /\ updateData.assignee # original.assignee
        THEN <<"assignee">> ELSE <<>>)

\* the statements after the awaited call of the primary writer run when the call
\* raised nothing
reachesLogAfterFailure(outcome) == outcome \in {"ok", "AuditError", "WriterError"}
reachesLog(outcome) == outcome \in {"ok", "AuditError"}

\* updateOpportunity(rowIndex, updateData, user): the opportunity is looked up,
\* the system configuration is read for the wording of the log, the writer is
\* called, the changes are logged
UpdateOpportunity(rowIndex, updateData, fault) ==
    /\ service = "opportunity" /\ ops < MaxOps
    /\ LET readerOk == fault # "reader"
           opportunities == ReadIf(readerOk, "opportunities")
           idx == FindIndex(LAMBDA o : o.rowIndex = rowIndex, opportunities)
           original == IF idx = 0 THEN <<>> ELSE opportunities[idx]
           logs == IF idx = 0 THEN <<>> ELSE UpdateLogs(original, updateData)
           audited == logs # <<>>
           configOk == fault # "configReader"
           outcome == IF ~readerOk THEN "Error"
                      ELSE IF idx = 0 THEN "NotFound"
                      ELSE IF ~configOk THEN "Error"
                      ELSE IF WriterRefuses(sheets.opportunities, rowIndex, fault)
                           THEN "WriterError"
                      ELSE IF audited /\ logOpportunityInteraction(fault) = "thrown"
                           THEN "AuditError"
                      ELSE "ok"
           wrote == outcome \in {"ok", "AuditError"}
           logged == reachesLog(outcome) /\ audited
                     /\ logOpportunityInteraction(fault) = "logged"
           sheet == IF wrote
                    THEN [sheets.opportunities EXCEPT
                             ![PosOf(rowIndex)] = Spread(@, updateData)]
                    ELSE sheets.opportunities
           audit == IF logged
                    THEN Append(sheets.interactions,
                                AuditEntry(Undefined, original.opportunityId, "update"))
                    ELSE sheets.interactions
       IN  /\ sheets' = [sheets EXCEPT !.opportunities = sheet, !.interactions = audit]
           /\ caches' = IF readerOk THEN AfterReads(caches, {"opportunities"}) ELSE caches
           /\ last' = Call("updateOpportunity", rowIndex,
                           [fault |-> fault, updateData |-> updateData], outcome,
                           IF outcome = "ok" THEN Success ELSE <<>>,
                           (IF outcome \in {"ok", "WriterError", "AuditError"}
                            THEN <<[fn |-> "updateOpportunity", handle |-> rowIndex]>>
                            ELSE <<>>)
                           \o (IF reachesLog(outcome) /\ audited
                               THEN <<AuditCall(~logged)>> ELSE <<>>),
                           0, {}, original, sheet # sheets.opportunities)
    /\ ops' = ops + 1
    /\ UNCHANGED <<config, service, sql, weeklyRepo, written, pending>>

\* deleteOpportunity(rowIndex, user): the deletion is noted on the company whose
\* name equals the opportunity's, inside a try of its own
DeleteOpportunity(rowIndex, fault) ==
    /\ service = "opportunity" /\ ops < MaxOps
    /\ LET readerOk == fault # "reader"
           opportunities == ReadIf(readerOk, "opportunities")
           idx == FindIndex(LAMBDA o : o.rowIndex = rowIndex, opportunities)
           opportunity == IF idx = 0 THEN <<>> ELSE opportunities[idx]
           deleted == readerOk /\ idx # 0
                      /\ ~WriterRefuses(sheets.opportunities, rowIndex, fault)
           noted == deleted /\ Truthy(opportunity.customerCompany)
           companies == Read("companyList")
           cidx == FindIndex(LAMBDA c : Trim(Lower(c.companyName))
                                          = Trim(Lower(opportunity.customerCompany)),
                             companies)
           audited == noted /\ cidx # 0
           outcome == IF ~readerOk THEN "Error"
                      ELSE IF idx = 0 THEN "NotFound"
                      ELSE IF ~deleted THEN "WriterError"
                      ELSE IF audited /\ logDeletion(fault) = "thrown" THEN "AuditError"
                      ELSE "ok"
           logged == audited /\ logDeletion(fault) = "logged"
           sheet == IF deleted THEN RemoveAt(sheets.opportunities, PosOf(rowIndex))
                    ELSE sheets.opportunities
           audit == IF logged
                    THEN Append(sheets.interactions,
                                AuditEntry(companies[cidx].companyId, Undefined, "delete"))
                    ELSE sheets.interactions
           read == IF ~readerOk THEN {}
                   ELSE IF noted THEN {"opportunities", "companyList"}
                   ELSE {"opportunities"}
       IN  /\ sheets' = [sheets EXCEPT !.opportunities = sheet, !.interactions = audit]
           /\ caches' = AfterReads(caches, read)
           /\ last' = Call("deleteOpportunity", rowIndex, [fault |-> fault], outcome,
                           IF outcome = "ok" THEN Success ELSE <<>>,
                           (IF readerOk /\ idx # 0
                            THEN <<[fn |-> "deleteOpportunity", handle |-> rowIndex]>>
                            ELSE <<>>)
                           \o (IF audited THEN <<AuditCall(~logged)>> ELSE <<>>),
                           0, {}, opportunity, sheet # sheets.opportunities)
    /\ ops' = ops + 1
    /\ UNCHANGED <<config, service, sql, weeklyRepo, written, pending>>

\* config.CONSTANTS.CONTACT_STATUS.UPGRADED
Upgraded == "upgraded"
\* addContactToOpportunity(opportunityId, contactData, user): an existing contact
\* is linked as it is; a new one gets its company and itself created first, and
\* the potential contact it came from (contactData.rowIndex) is marked upgraded
AddContactToOpportunity(opportunityId, contactData, fault) ==
    /\ service = "opportunity" /\ ops < MaxOps
    /\ Len(sheets.links) < MaxRows
    /\ LET existing == "contactId" \in DOMAIN contactData
           noCompany == ~existing /\ ~TruthyAt(contactData, "company")
           cidx == IF existing \/ noCompany THEN 0
                   ELSE FindIndex(LAMBDA c : c.companyName = contactData.company,
                                  sheets.companyList)
           companyId == IF cidx # 0 THEN sheets.companyList[cidx].companyId
                        ELSE IdName[Len(sheets.companyList) + 1]
           companySheet == IF existing \/ noCompany \/ cidx # 0 THEN sheets.companyList
                           ELSE Append(sheets.companyList,
                                       [companyId |-> companyId,
                                        companyName |-> contactData.company,
                                        phone |-> ValName[1], createdTime |-> 1,
                                        handleLost |-> FALSE])
           pidx == IF existing \/ noCompany THEN 0
                   ELSE FindIndex(LAMBDA c : c.name = contactData.name
                                             /\ c.companyId = companyId, sheets.contactList)
           contactId == IF existing THEN contactData.contactId
                        ELSE IF pidx # 0 THEN sheets.contactList[pidx].contactId
                        ELSE IdName[Len(sheets.contactList) + 1]
           contactSheet == IF existing \/ noCompany \/ pidx # 0 THEN sheets.contactList
                           ELSE Append(sheets.contactList,
                                       [contactId |-> contactId, name |-> contactData.name,
                                        companyId |-> companyId, position |-> ValName[1],
                                        handleLost |-> FALSE])
           upgrades == ~existing /\ ~noCompany /\ RowIndexOf(contactData) # 0
           upgradeRefused == upgrades /\ ~Addressable(sheets.contacts, contactData.rowIndex)
           potentialSheet == IF upgrades /\ ~upgradeRefused
                             THEN [sheets.contacts EXCEPT ![PosOf(contactData.rowIndex)] =
                                      Spread(@, [status |-> Upgraded])]
                             ELSE sheets.contacts
           outcome == IF noCompany THEN "Invalid"
                      ELSE IF upgradeRefused \/ fault = "writer" THEN "WriterError"
                      ELSE IF logOpportunityInteraction(fault) = "thrown" THEN "AuditError"
                      ELSE "ok"
           linked == outcome \in {"ok", "AuditError"}
           logged == linked /\ logOpportunityInteraction(fault) = "logged"
           link == [opportunityId |-> opportunityId, contactId |-> contactId]
       IN  /\ sheets' = [sheets EXCEPT
                 !.companyList = companySheet,
                 !.contactList = contactSheet,
                 !.contacts = potentialSheet,
                 !.links = IF linked THEN Append(@, link) ELSE @,
                 !.interactions = IF logged
                                  THEN Append(@, AuditEntry(Undefined, opportunityId, "link"))
                                  ELSE @]
           /\ last' = Call("addContactToOpportunity", opportunityId,
                           [fault |-> fault, contactData |-> contactData], outcome,
                           IF outcome = "ok"
                           THEN [success |-> TRUE, contact |-> contactId, link |-> link]
                           ELSE <<>>,
                           (IF noCompany \/ upgradeRefused THEN <<>>
                            ELSE <<[fn |-> "linkContactToOpportunity", handle |-> 0]>>)
                           \o (IF linked THEN <<AuditCall(~logged)>> ELSE <<>>),
                           0, {}, <<>>,
                           sheets' # sheets)
    /\ ops' = ops + 1
    /\ UNCHANGED <<config, service, caches, sql, weeklyRepo, written, pending>>

\* deleteContactLink(opportunityId, contactId, user): the writer answers whether
\* it removed a link, and only a removal is logged
DeleteContactLink(opportunityId, contactId, fault) ==
    /\ service = "opportunity" /\ ops < MaxOps
    /\ LET readerOk == fault # "reader"
           lidx == FindIndex(LAMBDA l : l.opportunityId = opportunityId
                                        /\ l.contactId = contactId, sheets.links)
           removed == readerOk /\ fault # "writer" /\ lidx # 0
           outcome == IF ~readerOk THEN "Error"
                      ELSE IF fault = "writer" THEN "WriterError"
                      ELSE IF removed /\ logOpportunityInteraction(fault) = "thrown"
                           THEN "AuditError"
                      ELSE "ok"
           logged == removed /\ logOpportunityInteraction(fault) = "logged"
       IN  /\ sheets' = [sheets EXCEPT
                 !.links = IF removed THEN RemoveAt(@, lidx) ELSE @,
                 !.interactions = IF logged
                                  THEN Append(@, AuditEntry(Undefined, opportunityId, "unlink"))
                                  ELSE @]
           /\ caches' = IF readerOk THEN AfterReads(caches, {"contactList"}) ELSE caches
           /\ last' = Call("deleteContactLink", contactId, [fault |-> fault], outcome,
                           IF outcome = "ok" THEN [success |-> removed] ELSE <<>>,
                           (IF readerOk THEN <<[fn |-> "deleteContactLink", handle |-> 0]>>
                            ELSE <<>>)
                           \o (IF removed THEN <<AuditCall(~logged)>> ELSE <<>>),
                           0, {}, <<>>, removed)
    /\ ops' = ops + 1
    /\ UNCHANGED <<config, service, sql, weeklyRepo, written, pending>>

\* the status text of a link in force
ActiveText == <<"a", "c", "t", "i", "v", "e">>
\* a link getOpportunityDetails keeps: its status trimmed and lower-cased is
\* 'active', or it has none
linkActive(link) ==
    LET statusVal == Lower(Trim(TextAt(link, "status")))
    IN  ~Truthy(statusVal) \/ statusVal = ActiveText
\* the contacts linked to an opportunity: copies of the official contacts of its
\* links in force, each with the link's id
LinkedContacts(links, contacts, opportunityId) ==
    LET mine == SelectSeq(links, LAMBDA l : l.opportunityId = opportunityId /\ linkActive(l))
        known == SelectSeq(mine, LAMBDA l : \E i \in 1..Len(contacts) :
                                               contacts[i].contactId = l.contactId)
    IN  [i \in 1..Len(known) |->
            Spread(contacts[FindIndex(LAMBDA c : c.contactId = known[i].contactId, contacts)],
                   [linkId |-> Undefined])]
\* ContactService.getLinkedContacts (contact-service.js 531-593)
\* _normalizeKey(str)
normalizeKey(text) == Trim(Lower(text))
\* a link getLinkedContacts keeps: its status is exactly 'active'
linkStrictlyActive(link) == "status" \in DOMAIN link /\ link.status = ActiveText
\* the card of the first potential contact of that name and company that has one
cardOf(potentials, name, companyName) ==
    LET cards == SelectSeq(potentials, LAMBDA pc :
                    /\ TruthyAt(pc, "name") /\ TruthyAt(pc, "company")
                    /\ TruthyAt(pc, "driveLink")
                    /\ normalizeKey(pc.name) = normalizeKey(name)
                    /\ normalizeKey(pc.company) = normalizeKey(companyName))
    IN  IF Truthy(name) /\ Truthy(companyName) /\ cards # <<>> THEN cards[1].driveLink
        ELSE <<>>
\* getLinkedContacts(opportunityId) as a function of the readers' answers: the
\* official contacts whose id is in the set of the ids of the links in force
getLinkedContacts(links, contacts, companies, potentials, opportunityId) ==
    LET linkedContactIds ==
            {links[i].contactId : i \in {j \in 1..Len(links) :
                /\ links[j].opportunityId = opportunityId
                /\ linkStrictlyActive(links[j])}}
        linked == SelectSeq(contacts, LAMBDA c : c.contactId \in linkedContactIds)
    IN  [i \in 1..Len(linked) |->
            LET contact == linked[i]
                companyName == CompanyNameOf(companies, contact.companyId)
            IN  [contactId |-> contact.contactId, name |-> contact.name,
                 companyId |-> contact.companyId, position |-> contact.position,
                 companyName |-> companyName,
                 driveLink |-> cardOf(potentials, contact.name, companyName)]]
LinkedKeys == {"links", "contactList", "companyList", "contacts"}
\* any error is answered with no contacts
GetLinkedContacts(opportunityId, fault) ==
    /\ service = "contact" /\ ops < MaxOps
    /\ LET readerOk == fault # "reader"
       IN  /\ caches' = IF readerOk THEN AfterReads(caches, LinkedKeys) ELSE caches
           /\ last' = Call("getLinkedContacts", opportunityId, [fault |-> fault], "ok",
                           IF readerOk
                           THEN getLinkedContacts(Read("links"), Read("contactList"),
                                                  Read("companyList"), Read("contacts"),
                                                  opportunityId)
                           ELSE <<>>,
                           <<>>, 0, {}, <<>>, FALSE)
    /\ ops' = ops + 1
    /\ UNCHANGED <<config, service, sheets, sql, weeklyRepo, written, pending>>

\* the job title of the main contact: among the linked contacts by name, else
\* among the potential contacts of the same company
MainContactJobTitle(info, linked, potentials) ==
    LET targetName == Trim(info.mainContact)
        lidx == FindIndex(LAMBDA c : c.name = targetName, linked)
        sameCompany == SelectSeq(potentials, LAMBDA pc :
                          /\ opportunityNormalizeCompanyName(pc.company) # <<>>
                          /\ opportunityNormalizeCompanyName(pc.company)
                               = opportunityNormalizeCompanyName(info.customerCompany))
        pidx == FindIndex(LAMBDA pc : pc.name = targetName, sameCompany)
    IN  IF ~Truthy(targetName) THEN EmptyStr
        ELSE IF lidx # 0 /\ linked[lidx].position # EmptyStr THEN linked[lidx].position
        ELSE IF pidx # 0 /\ sameCompany[pidx].position # EmptyStr
             THEN sameCompany[pidx].position
        ELSE EmptyStr
OpportunityDetailKeys == {"opportunities", "interactions", "eventLogs", "links",
                          "contactList", "contacts"}
\* what getOpportunityDetails leaves of the record it found: the job title is
\* set on the record itself, the one the reader holds
attachJobTitle(info, title) == Spread(info, [mainContactJobTitle |-> title])

\* getOpportunityDetails(opportunityId)
GetOpportunityDetails(opportunityId, fault) ==
    /\ service = "opportunity" /\ ops < MaxOps
    /\ LET readerOk == fault # "reader"
           opportunities == ReadIf(readerOk, "opportunities")
           idx == FindIndex(LAMBDA o : o.opportunityId = opportunityId, opportunities)
           info == IF idx = 0 THEN <<>> ELSE opportunities[idx]
           linked == LinkedContacts(Read("links"), Read("contactList"), opportunityId)
           title == MainContactJobTitle(info, linked, Read("contacts"))
           outcome == IF ~readerOk THEN "Error" ELSE IF idx = 0 THEN "NotFound" ELSE "ok"
           read == IF readerOk THEN AfterReads(caches, OpportunityDetailKeys) ELSE caches
       IN  /\ caches' = IF outcome = "ok"
                        THEN [read EXCEPT !.opportunities.rows[idx] = attachJobTitle(@, title)]
                        ELSE read
           /\ last' = Call("getOpportunityDetails", opportunityId, [fault |-> fault], outcome,
                           IF outcome = "ok"
                           THEN [opportunityInfo |-> Spread(info, [mainContactJobTitle |-> title]),
                                 linkedContacts |-> linked,
                                 interactions |->
                                     SortBy(SelectSeq(Read("interactions"),
                                                LAMBDA i : i.opportunityId = opportunityId),
                                            "interactionOrCreated"),
                                 eventLogs |->
                                     SortBy(SelectSeq(Read("eventLogs"),
                                                LAMBDA e : e.opportunityId = opportunityId),
                                            "createdOrEpoch")]
                           ELSE <<>>,
                           <<>>, 0, {}, info, FALSE)
    /\ ops' = ops + 1
    /\ UNCHANGED <<config, service, sheets, sql, weeklyRepo, written, pending>>

\* the statuses of an opportunity: in progress (written in Chinese in the
\* source) and config.CONSTANTS.OPPORTUNITY_STATUS.ARCHIVED
InProgress == "active"
Archived == "archived"
\* the join key of getOpportunitiesByCounty
countyKey(name) == IF Truthy(name) THEN Trim(Lower(name)) ELSE <<>>
\* companyToCountyMap.get(key): the county of the last company under the key
CountyOf(companies, key) ==
    LET hits == {i \in 1..Len(companies) :
                    /\ TruthyAt(companies[i], "companyName")
                    /\ countyKey(companies[i].companyName) = key}
    IN  IF hits = {} THEN <<>>
        ELSE TextAt(companies[CHOOSE i \in hits : \A j \in hits : j <= i], "county")
\* countyCounts after the opportunities were counted one by one: the counties in
\* the order they were first met, each with its count
RECURSIVE CountByCounty(_, _, _)
CountByCounty(counts, opps, companies) ==
    IF opps = <<>> THEN counts
    ELSE LET county == CountyOf(companies, countyKey(TextAt(Head(opps), "customerCompany")))
             at == FindIndex(LAMBDA c : c.county = county, counts)
             next == IF ~Truthy(county) THEN counts
                     ELSE IF at = 0 THEN Append(counts, [county |-> county, count |-> 1])
                     ELSE [counts EXCEPT ![at].count = @ + 1]
         IN  CountByCounty(next, Tail(opps), companies)
\* getOpportunitiesByCounty(opportunityType): an error is answered with no counts
GetOpportunitiesByCounty(opportunityType, fault) ==
    /\ service = "opportunity" /\ ops < MaxOps
    /\ LET readerOk == fault # "reader"
           active == SelectSeq(Read("opportunities"),
                               LAMBDA o : Get(o, "currentStatus") # Archived)
           filtered == IF opportunityType # Undefined
                       THEN SelectSeq(active,
                                LAMBDA o : Get(o, "opportunityType") = opportunityType)
                       ELSE active
       IN  /\ caches' = IF readerOk THEN AfterReads(caches, {"opportunities", "companyList"})
                        ELSE caches
           /\ last' = Call("getOpportunitiesByCounty", opportunityType, [fault |-> fault],
                           "ok",
                           IF readerOk THEN CountByCounty(<<>>, filtered, Read("companyList"))
                           ELSE <<>>,
                           <<>>, 0, {}, <<>>, FALSE)
    /\ ops' = ops + 1
    /\ UNCHANGED <<config, service, sheets, sql, weeklyRepo, written, pending>>

\* the label of a stage: its note, else its value; the last entry under a value wins
StageName(stages, v) ==
    LET at == CHOOSE i \in 1..Len(stages) :
                 stages[i].value = v /\ \A j \in (i + 1)..Len(stages) : stages[j].value # v
    IN  IF TruthyAt(stages[at], "note") THEN stages[at].note ELSE <<v>>
\* stageGroups after the initialisation: one group per configured stage, empty
stageGroupsInit(stages) ==
    [v \in {stages[i].value : i \in 1..Len(stages)} |->
        [name |-> StageName(stages, v), opportunities |-> <<>>, count |-> 0]]
\* the names every object literal answers to besides its own keys
\* (Object.prototype): stageGroups[name] is truthy, and is no group
Inherited == {"constructor"}
\* stageGroups[stageKey].opportunities.push(opp) on an inherited name raises
ClassifyRaises(groups, opps) ==
    \E i \in 1..Len(opps) :
        /\ Get(opps[i], "currentStatus") = InProgress
        /\ Get(opps[i], "currentStage") \notin DOMAIN groups
        /\ Get(opps[i], "currentStage") \in Inherited
\* stageGroups after the opportunities were classified one by one: one in
\* progress joins the group of its stage when there is such a group
RECURSIVE Classify(_, _)
Classify(groups, opps) ==
    IF opps = <<>> THEN groups
    ELSE LET opp == Head(opps)
             stageKey == Get(opp, "currentStage")
             next == IF Get(opp, "currentStatus") = InProgress /\ stageKey \in DOMAIN groups
                     THEN [groups EXCEPT ![stageKey].opportunities = Append(@, opp),
                                         ![stageKey].count = @ + 1]
                     ELSE groups
         IN  Classify(next, Tail(opps))
\* getOpportunitiesByStage(): an error is answered with no groups
GetOpportunitiesByStage(fault) ==
    /\ service = "opportunity" /\ ops < MaxOps
    /\ LET readerOk == fault # "reader"
           opportunities == Read("opportunities")
           groups == stageGroupsInit(config.stages)
       IN  /\ caches' = IF readerOk THEN AfterReads(caches, {"opportunities"}) ELSE caches
           /\ last' = Call("getOpportunitiesByStage", Undefined, [fault |-> fault],
                           "ok",
                           IF readerOk /\ ~ClassifyRaises(groups, opportunities)
                           THEN Classify(groups, opportunities)
                           ELSE <<>>,
                           <<>>, 0, {}, <<>>, FALSE)
    /\ ops' = ops + 1
    /\ UNCHANGED <<config, service, sheets, sql, weeklyRepo, written, pending>>

\* ------------------------------------------------------------------------
\* InteractionService (src/services/interaction-service.js)
\* ------------------------------------------------------------------------
\* config.PAGINATION.INTERACTIONS_PER_PAGE, and the fallback of the source
InteractionsPerPage == 20
Unspecified == <<"-">>
UnknownOpportunity == <<"?", "o">>
UnknownCompany == <<"?", "c">>
\* the context name of an interaction: its opportunity's name, else its
\* company's, else a placeholder
ContextNameOpportunityFirst(item, opportunities, companies) ==
    LET oidx == FindIndex(LAMBDA o : o.opportunityId = item.opportunityId, opportunities)
        hasOpp == item.opportunityId # Undefined /\ item.opportunityId # EmptyStr
        hasComp == item.companyId # Undefined /\ item.companyId # EmptyStr
        compKnown == \E i \in 1..Len(companies) : companies[i].companyId = item.companyId
    IN  IF hasOpp
        THEN (IF oidx # 0 THEN opportunities[oidx].opportunityName ELSE UnknownOpportunity)
        ELSE IF hasComp
        THEN (IF compKnown THEN CompanyNameOf(companies, item.companyId) ELSE UnknownCompany)
        ELSE Unspecified
ContextName(item, opportunities, companies) ==
    LET oidx == FindIndex(LAMBDA o : o.opportunityId = item.opportunityId, opportunities)
        cname == CompanyNameOf(companies, item.companyId)
        hasOpp == item.opportunityId # Undefined /\ item.opportunityId # EmptyStr
        hasComp == item.companyId # Undefined /\ item.companyId # EmptyStr
        compKnown == \E i \in 1..Len(companies) : companies[i].companyId = item.companyId
    IN  IF hasOpp /\ oidx # 0
        THEN (LET last_o == CHOOSE i \in 1..Len(opportunities) :
                     /\ opportunities[i].opportunityId = item.opportunityId
                     /\ \A j \in (i + 1)..Len(opportunities) :
                           opportunities[j].opportunityId # item.opportunityId
              IN  opportunities[last_o].opportunityName)
        ELSE IF hasComp /\ compKnown THEN cname
        ELSE IF hasOpp THEN UnknownOpportunity
        ELSE IF hasComp THEN UnknownCompany
        ELSE Unspecified
\* the clone of an interaction with its context name
JoinContext(item, opportunities, companies) ==
    Spread(item, [opportunityName |-> ContextName(item, opportunities, companies)])

\* the query filter of searchInteractions on four text fields
InteractionMatches(i, query) ==
    \/ (TruthyAt(i, "contentSummary") /\ Includes(Lower(i.contentSummary), Lower(query)))
    \/ (TruthyAt(i, "eventTitle") /\ Includes(Lower(i.eventTitle), Lower(query)))
    \/ (TruthyAt(i, "opportunityName") /\ Includes(Lower(i.opportunityName), Lower(query)))
    \/ (TruthyAt(i, "recorder") /\ Includes(Lower(i.recorder), Lower(query)))
\* the page size: the configured one, else the fallback
interactionPageSize ==
    IF config.interactionsPerPage # 0 THEN config.interactionsPerPage ELSE InteractionsPerPage
\* the envelope of the fetchAll mode: everything on one page
AllOnOnePage(items) ==
    [data |-> items,
     pagination |-> [current |-> 1, total |-> 1, totalItems |-> Len(items),
                     hasNext |-> FALSE, hasPrev |-> FALSE]]

\* searchInteractions(query, page, fetchAll): join, filter, sort, paginate
SearchInteractions(query, page, fetchAll, fault) ==
    /\ service = "interaction" /\ ops < MaxOps
    /\ LET readerOk == fault # "reader"
           interactions == Read("interactions")
           opportunities == Read("opportunities")
           companies == Read("companyList")
           joined == [i \in 1..Len(interactions) |->
                         JoinContext(interactions[i], opportunities, companies)]
           filtered == IF Truthy(query) THEN SelectSeq2(joined, InteractionMatches, query)
                       ELSE joined
           results == SortBy(filtered, "interactionTime")
       IN  /\ caches' = IF readerOk
                        THEN AfterReads(caches, {"interactions", "opportunities", "companyList"})
                        ELSE caches
           /\ last' = Call("searchInteractions", query,
                           [fault |-> fault, page |-> page, fetchAll |-> fetchAll,
                            pageSize |-> interactionPageSize],
                           IF readerOk THEN "ok" ELSE "Error",
                           IF ~readerOk THEN <<>>
                           ELSE IF fetchAll THEN AllOnOnePage(results)
                           ELSE Paginate(results, page, interactionPageSize),
                           <<>>, 0, {}, <<>>, FALSE)
    /\ ops' = ops + 1
    /\ UNCHANGED <<config, service, sheets, sql, weeklyRepo, written, pending>>

\* createInteraction(data, user)
CreateInteraction(newId, companyId, fault) ==
    /\ service = "interaction" /\ ops < MaxOps
    /\ Len(sheets.interactions) < MaxRows
    /\ \A i \in 1..Len(sheets.interactions) : sheets.interactions[i].interactionId # newId
    /\ LET ok == fault # "writer"
           row == [interactionId |-> newId, companyId |-> companyId,
                   opportunityId |-> Undefined, eventTitle |-> ValName[1],
                   interactionTime |-> Len(sheets.interactions) + 1]
       IN  /\ sheets' = [sheets EXCEPT !.interactions = IF ok THEN Append(@, row) ELSE @]
           /\ caches' = IF ok THEN Invalidate(caches, "interactions") ELSE caches
           /\ last' = Call("createInteraction", newId, [fault |-> fault],
                           IF ok THEN "ok" ELSE "WriterError",
                           IF ok THEN [success |-> TRUE, id |-> newId] ELSE <<>>,
                           <<[fn |-> "createInteraction", handle |-> 0]>>, 0,
                           IF ok THEN {"interactions"} ELSE {}, <<>>, ok)
    /\ ops' = ops + 1
    /\ UNCHANGED <<config, service, sql, weeklyRepo, written, pending>>

\* the interaction writer finds the row of an id itself and raises without one
InteractionPos(id) == FindIndex(LAMBDA i : i.interactionId = id, sheets.interactions)

\* updateInteraction(id, data, user)
UpdateInteraction(id, title, fault) ==
    /\ service = "interaction" /\ ops < MaxOps
    /\ LET pos == InteractionPos(id)
           ok == fault # "writer" /\ pos # 0
       IN  /\ sheets' = [sheets EXCEPT !.interactions =
                            IF ok THEN [@ EXCEPT ![pos].eventTitle = title] ELSE @]
           /\ caches' = IF ok THEN Invalidate(caches, "interactions") ELSE caches
           /\ last' = Call("updateInteraction", id, [fault |-> fault],
                           IF ok THEN "ok" ELSE "WriterError",
                           IF ok THEN Success ELSE <<>>,
                           <<[fn |-> "updateInteraction", handle |-> 0]>>, 0,
                           IF ok THEN {"interactions"} ELSE {}, <<>>,
                           sheets'.interactions # sheets.interactions)
    /\ ops' = ops + 1
    /\ UNCHANGED <<config, service, sql, weeklyRepo, written, pending>>

\* deleteInteraction(id, user)
DeleteInteraction(id, fault) ==
    /\ service = "interaction" /\ ops < MaxOps
    /\ LET pos == InteractionPos(id)
           ok == fault # "writer" /\ pos # 0
       IN  /\ sheets' = [sheets EXCEPT !.interactions = IF ok THEN RemoveAt(@, pos) ELSE @]
           /\ caches' = IF ok THEN Invalidate(caches, "interactions") ELSE caches
           /\ last' = Call("deleteInteraction", id, [fault |-> fault],
                           IF ok THEN "ok" ELSE "WriterError",
                           IF ok THEN Success ELSE <<>>,
                           <<[fn |-> "deleteInteraction", handle |-> 0]>>, 0,
                           IF ok THEN {"interactions"} ELSE {}, <<>>, ok)
    /\ ops' = ops + 1
    /\ UNCHANGED <<config, service, sql, weeklyRepo, written, pending>>

\* ------------------------------------------------------------------------
\* the state machine
\* ------------------------------------------------------------------------
\* at most one row of a seed has lost its handle
LostSets(k) == {{}} \cup {{pos} : pos \in 1..k}
Services == {"weekly", "contact", "company", "opportunity", "interaction"}
\* the stores a service is constructed over hold rows under the first ids, in
\* order (ids are interchangeable), any of them without a handle
WeeklySeeds ==
    UNION {{[pos \in 1..k |-> [recordId |-> IdName[pos], summaryContent |-> ValName[1],
                        entryDate |-> 1, handleLost |-> pos \in lost]] :
                lost \in LostSets(k)} :
              k \in 0..MaxRows}
NoSheets == [k \in Keys |-> <<>>]
NoCaches == [k \in Keys |-> NoCache]
NoWrites == [k \in Keys |-> <<>>]

InitWeekly ==
    /\ service = "weekly"
    /\ \E seed \in WeeklySeeds :
         /\ sheets = [NoSheets EXCEPT !.weekly = seed]
         /\ sql = [weekly |-> WeeklyReplica(seed), contactList |-> <<>>]
    /\ weeklyRepo \in BOOLEAN

\* one company, and contacts of it and of a company that is not in the list
CompanySeed ==
    <<[companyId |-> IdName[1], companyName |-> <<"a">>, phone |-> ValName[1],
       createdTime |-> 1, handleLost |-> FALSE]>>
ContactSeeds ==
    UNION {{[pos \in 1..k |-> [contactId |-> IdName[pos], name |-> <<"b">>, companyId |-> IdName[pos],
                        position |-> ValName[1], handleLost |-> pos \in lost]] : lost \in LostSets(k)} :
              k \in 0..MaxRows}
\* potential contacts: the first with notes, the others without
PotentialSeed ==
    <<[name |-> <<"b">>, company |-> <<"a">>, position |-> ValName[1], notes |-> <<"o">>],
      [name |-> <<"b">>, company |-> <<"a">>, position |-> ValName[1], notes |-> <<>>]>>
InitContact ==
    /\ service = "contact"
    /\ \E seed \in ContactSeeds :
         /\ sheets = [NoSheets EXCEPT !.contactList = seed, !.contacts = PotentialSeed,
                                      !.companyList = CompanySeed]
         /\ sql = [weekly |-> <<>>, contactList |-> ContactReplica(seed)]
    /\ weeklyRepo = FALSE

\* companies under names that differ in letter case and corporate suffix, and at
\* most one opportunity, of the first company or of a company nobody listed
CompanyNameAt == << <<"a">>, <<"b", "gong", "si">>, <<"d", "(", "x", ")">>, <<"e">> >>
GhostName == <<"g">>
CompanySeeds ==
    UNION {{[pos \in 1..k |-> [companyId |-> IdName[pos], companyName |-> CompanyNameAt[pos],
                        phone |-> ValName[1], createdTime |-> pos,
                        handleLost |-> pos \in lost]] : lost \in LostSets(k)} :
              k \in 0..MaxRows}
OpportunityOf(pos, company) ==
    [opportunityId |-> IdName[pos], opportunityName |-> <<"o">>, customerCompany |-> company,
     currentStage |-> "s1", assignee |-> "u1", mainContact |-> <<"b">>,
     parentOpportunityId |-> EmptyStr]
InitCompany ==
    /\ service = "company"
    /\ \E seed \in CompanySeeds, opps \in {<<>>, <<OpportunityOf(1, <<"A">>)>>,
                                            <<OpportunityOf(1, GhostName)>>} :
         sheets = [NoSheets EXCEPT !.companyList = seed, !.opportunities = opps]
    /\ sql = [weekly |-> <<>>, contactList |-> <<>>]
    /\ weeklyRepo = FALSE

\* opportunities of the one company, its contact b, linked or not, and a
\* potential contact of the same name
InitOpportunity ==
    /\ service = "opportunity"
    /\ \E k \in 1..MaxRows, linked \in BOOLEAN :
         sheets = [NoSheets EXCEPT
            !.opportunities = [pos \in 1..k |-> OpportunityOf(pos, <<"a">>)],
            !.companyList = CompanySeed,
            !.contactList = <<[contactId |-> IdName[1], name |-> <<"b">>,
                               companyId |-> IdName[1], position |-> ValName[1],
                               handleLost |-> FALSE]>>,
            !.contacts = <<[name |-> <<"b">>, company |-> <<"a">>, position |-> ValName[2],
                            notes |-> <<>>]>>,
            !.links = IF linked
                      THEN <<[opportunityId |-> IdName[1], contactId |-> IdName[1]]>>
                      ELSE <<>>]
    /\ sql = [weekly |-> <<>>, contactList |-> <<>>]
    /\ weeklyRepo = FALSE

InitInteraction ==
    /\ service = "interaction"
    /\ \E k \in 0..MaxRows :
         sheets = [NoSheets EXCEPT
            !.interactions = [pos \in 1..k |->
                                 [interactionId |-> IdName[pos], companyId |-> IdName[1],
                                  opportunityId |-> Undefined, eventTitle |-> ValName[1],
                                  interactionTime |-> pos]],
            !.companyList = CompanySeed]
    /\ sql = [weekly |-> <<>>, contactList |-> <<>>]
    /\ weeklyRepo = FALSE

\* no page size configured (the services fall back to their own), no stages
DefaultConfig == [interactionsPerPage |-> 0, contactsPerPage |-> 0, stages |-> <<>>]
Init ==
    /\ config = DefaultConfig
    /\ ops = 0
    /\ caches = NoCaches
    /\ written = NoWrites
    /\ last = NoCall
    /\ pending = NoPending
    /\ (InitWeekly \/ InitContact \/ InitCompany \/ InitOpportunity \/ InitInteraction)

\* the inputs of the calls
\* the id a writer gives a new row: the first one no row of the store has
FreshId(sheet, key) ==
    LET free == {i \in 1..Len(IdName) : \A pos \in 1..Len(sheet) : sheet[pos][key] # IdName[i]}
    IN  IdName[CHOOSE i \in free : \A j \in free : i <= j]
PotentialRows == {HandleOf(1), HandleOf(2), HandleOf(3)}
TargetNames == {<<"a">>, <<"B">>, GhostName}
OpportunityUpdates == {[currentStage |-> "s2"], [assignee |-> "u1"],
                       [parentOpportunityId |-> IdName[1]],
                       [parentOpportunityId |-> IdName[2]]}
\* a new opportunity of the listed company, with or without a parent
OpportunityDatas ==
    {[OpportunityOf(1, <<"a">>) EXCEPT !.parentOpportunityId = parent] :
        parent \in {EmptyStr, IdName[1]}}
\* the batches: parent links for the first rows
ParentBatches ==
    {<<[rowIndex |-> HandleOf(1), data |-> [parentOpportunityId |-> IdName[2]]]>>,
     <<[rowIndex |-> HandleOf(1), data |-> [parentOpportunityId |-> IdName[2]]],
       [rowIndex |-> HandleOf(2), data |-> [parentOpportunityId |-> IdName[1]]]>>}
ContactDatas == {[contactId |-> IdName[1], name |-> <<"b">>],
                 [name |-> <<"n">>, company |-> <<"a">>], [name |-> <<"n">>],
                 [name |-> <<"b">>, company |-> <<"a">>, rowIndex |-> HandleOf(1)],
                 [name |-> <<"n">>, company |-> <<"c">>, rowIndex |-> HandleOf(2)]}

Next ==
    \/ \E fed \in FedAnswers, fault \in {"none", "reader"} : FetchWeeklyEntries(fed, fault)
    \/ \E v \in NewVals, fault \in {"none", "writer"} :
          CreateWeeklyBusinessEntry(FreshId(sheets.weekly, "recordId"), v, fault)
    \/ \E id \in RecordIds, v \in NewVals, fault \in {"none", "reader", "writer"} :
          UpdateWeeklyBusinessEntry(id, v, fault)
    \/ \E id \in RecordIds, fault \in {"none", "reader", "writer"} :
          DeleteWeeklyBusinessEntry(id, fault)
    \/ ReplicateWeekly
    \/ \E fed \in FedAnswers, fault \in {"none", "reader", "companyReader"} :
          SearchOfficialContacts(<<>>, 1, fed, fault)
    \/ \E id \in RecordIds, v \in NewVals, fault \in {"none", "reader", "writer"} :
          UpdateContact(id, v, fault)
    \/ \E row \in PotentialRows, fault \in {"none", "reader", "writer"},
          updateData \in UpdateDatas : UpdatePotentialContact(row, updateData, fault)
    \/ ReplicateContacts
    \/ \E name \in TargetNames, fault \in {"none", "reader"} : GetCompanyDetails(name, fault)
    \/ \E fault \in {"none", "reader", "activityReader"} :
          GetCompanyListWithActivity(<<>>, fault)
    \/ \E name \in TargetNames, fault \in {"none", "reader", "writer"} :
          CreateCompany(FreshId(sheets.companyList, "companyId"), name, fault)
    \/ \E name \in TargetNames, v \in NewVals, fault \in Faults : UpdateCompany(name, v, fault)
    \/ \E name \in TargetNames, fault \in {"none", "reader", "writer"} :
          DeleteCompany(name, fault)
    \/ \E row \in 2..(MaxRows + 2), updateData \in OpportunityUpdates,
          fault \in {"none", "configReader", "writer", "audit"} :
          UpdateOpportunity(row, updateData, fault)
    \/ \E row \in 2..(MaxRows + 2), fault \in Faults : DeleteOpportunity(row, fault)
    \/ \E opportunityData \in OpportunityDatas, fault \in {"none", "writer"} :
          CreateOpportunity(FreshId(sheets.opportunities, "opportunityId"),
                            opportunityData, fault)
    \/ \E updates \in ParentBatches, fault \in {"none", "writer"} :
          BatchUpdateOpportunities(updates, fault)
    \/ \E contactData \in ContactDatas, fault \in {"none", "writer", "audit"} :
          AddContactToOpportunity(IdName[1], contactData, fault)
    \/ \E id \in {IdName[1], IdName[2]}, fault \in Faults :
          DeleteContactLink(IdName[1], id, fault)
    \/ \E id \in RecordIds, fault \in {"none", "reader"} : GetOpportunityDetails(id, fault)
    \/ \E fault \in {"none", "reader"} : SearchInteractions(<<>>, 1, FALSE, fault)
    \/ \E fault \in {"none", "writer"} :
          CreateInteraction(FreshId(sheets.interactions, "interactionId"), IdName[1], fault)
    \/ \E id \in RecordIds, fault \in {"none", "writer"} :
          UpdateInteraction(id, ValName[2], fault)
    \/ \E id \in RecordIds, fault \in {"none", "writer"} : DeleteInteraction(id, fault)

Spec == Init /\ [][Next]_vars

\* ------------------------------------------------------------------------
\* the views: the read operations over stores of every shape of record, with
\* every query, page and page size
\* ------------------------------------------------------------------------
\* an id no record of a store has
DanglingId == IdName[5]
PageSizes == {0, 1, 2}
Pages == {1, 2, 3}
Queries == {<<>>, <<" ">>, <<"a">>}
\* the sequences of at most MaxRows rows of a set of rows
RECURSIVE SeqsUpTo(_, _)
SeqsUpTo(S, n) ==
    IF n = 0 THEN {<<>>}
    ELSE LET shorter == SeqsUpTo(S, n - 1)
         IN  shorter \cup {Append(q, x) : q \in {r \in shorter : Len(r) = n - 1}, x \in S}
\* interactions of every context and date: of a known opportunity, of a known
\* company, of ones nobody listed, of nothing; dated, undated, with a text as date
InteractionKinds ==
    {[companyId |-> IdName[1], opportunityId |-> IdName[1], eventTitle |-> <<"a">>,
      interactionTime |-> 1],
     [companyId |-> IdName[1], opportunityId |-> Undefined, eventTitle |-> <<"B">>,
      interactionTime |-> 2],
     [companyId |-> Undefined, opportunityId |-> DanglingId, eventTitle |-> <<"a">>,
      interactionTime |-> BadDate],
     [companyId |-> DanglingId, opportunityId |-> Undefined, eventTitle |-> <<"b">>,
      interactionTime |-> 2],
     [companyId |-> Undefined, opportunityId |-> Undefined, eventTitle |-> <<"A">>,
      interactionTime |-> NoDate],
     [companyId |-> IdName[1], opportunityId |-> DanglingId, eventTitle |-> <<"b">>,
      interactionTime |-> 1]}
WithIds(rows, key) == [pos \in 1..Len(rows) |-> Spread(rows[pos], [k \in {key} |-> IdName[pos]])]
ViewInitInteraction ==
    /\ service = "interaction"
    /\ \E rows \in SeqsUpTo(InteractionKinds, MaxRows), size \in PageSizes :
         /\ sheets = [NoSheets EXCEPT
                        !.interactions = WithIds(rows, "interactionId"),
                        !.opportunities = <<OpportunityOf(1, <<"a">>)>>,
                        !.companyList = CompanySeed]
         /\ config = [DefaultConfig EXCEPT !.interactionsPerPage = size]
    /\ sql = [weekly |-> <<>>, contactList |-> <<>>]
    /\ weeklyRepo = FALSE

\* weekly entries dated in the week, after it, undated, or dated with a text in
\* the week's range of texts that parses to no date
WeeklyKinds ==
    {[summaryContent |-> ValName[1], entryDate |-> d, handleLost |-> FALSE] :
        d \in {1, 2, 3, NoDate, BadDate}}
ViewInitWeekly ==
    /\ service = "weekly"
    /\ \E rows \in SeqsUpTo(WeeklyKinds, MaxRows) :
         /\ sheets = [NoSheets EXCEPT !.weekly = WithIds(rows, "recordId")]
         /\ sql = [weekly |-> WeeklyReplica(WithIds(rows, "recordId")), contactList |-> <<>>]
    /\ config = DefaultConfig
    /\ weeklyRepo \in BOOLEAN

\* companies under names that differ in letter case and corporate suffix, with
\* and without a county, created at a time, at none, at a text that is no date
CompanyKinds ==
    {[companyName |-> <<"a">>, phone |-> <<"1">>, county |-> <<"x">>, createdTime |-> 1,
      handleLost |-> FALSE],
     [companyName |-> <<"B", "gong", "si">>, phone |-> <<"2">>, county |-> <<"y">>,
      createdTime |-> BadDate, handleLost |-> FALSE],
     [companyName |-> <<"c">>, phone |-> <<>>, county |-> <<>>, createdTime |-> NoDate,
      handleLost |-> FALSE]}
\* interactions of the first two companies: dated, dated before 1970, dated
\* with a text
ActivityKinds ==
    {[companyId |-> IdName[1], opportunityId |-> Undefined, interactionTime |-> 2],
     [companyId |-> IdName[1], opportunityId |-> Undefined, interactionTime |-> PreEpoch],
     [companyId |-> IdName[1], opportunityId |-> Undefined, interactionTime |-> BadDate],
     [companyId |-> IdName[2], opportunityId |-> Undefined, interactionTime |-> 3]}
EventLogSeeds ==
    {<<>>, <<[companyId |-> IdName[2], opportunityId |-> Undefined, createdTime |-> 1]>>}
\* the activity varies, or the opportunities do
ViewInitCompany ==
    /\ service = "company"
    /\ \E companies \in SeqsUpTo(CompanyKinds, MaxRows) :
         \/ \E interactions \in SeqsUpTo(ActivityKinds, MaxRows), eventLogs \in EventLogSeeds :
               sheets = [NoSheets EXCEPT
                            !.companyList = WithIds(companies, "companyId"),
                            !.interactions = WithIds(interactions, "interactionId"),
                            !.eventLogs = eventLogs]
         \/ \E company \in {<<"A">>, <<"b">>} :
               sheets = [NoSheets EXCEPT
                            !.companyList = WithIds(companies, "companyId"),
                            !.opportunities = <<OpportunityOf(1, company)>>]
    /\ sql = [weekly |-> <<>>, contactList |-> <<>>]
    /\ config = DefaultConfig
    /\ weeklyRepo = FALSE

\* two companies with a county each, the second under a name with a suffix
CountyCompanies ==
    <<[companyId |-> IdName[1], companyName |-> <<"a">>, phone |-> <<"1">>,
       county |-> <<"x">>, createdTime |-> 1, handleLost |-> FALSE],
      [companyId |-> IdName[2], companyName |-> <<"b", "gong", "si">>, phone |-> <<"2">>,
       county |-> <<"y">>, createdTime |-> 1, handleLost |-> FALSE]>>
\* opportunities of a listed company under its name, in another letter case,
\* without its suffix, and of a company nobody listed; in and out of progress,
\* at a configured stage or not
OpportunityKinds ==
    {Spread(OpportunityOf(1, <<"a">>), [currentStatus |-> InProgress]),
     Spread(OpportunityOf(1, <<"A">>), [currentStatus |-> InProgress, currentStage |-> "s2"]),
     Spread(OpportunityOf(1, <<"b">>), [currentStatus |-> InProgress, currentStage |-> "s9"]),
     Spread(OpportunityOf(1, GhostName), [currentStatus |-> "closed"]),
     Spread(OpportunityOf(1, <<"a">>), [currentStatus |-> InProgress,
                                        currentStage |-> "constructor"]),
     Spread(OpportunityOf(1, <<"b", "gong", "si">>), [currentStatus |-> Archived])}
StageConfigs ==
    {<<>>, <<[value |-> "s1", note |-> <<"n">>]>>,
     <<[value |-> "s1", note |-> <<"n">>], [value |-> "s2", note |-> <<>>],
       [value |-> "s3", note |-> <<"m">>]>>}
\* interactions and event logs of the first opportunity
OpportunityActivityKinds ==
    {[companyId |-> Undefined, opportunityId |-> IdName[1], interactionTime |-> 2],
     [companyId |-> Undefined, opportunityId |-> IdName[1], interactionTime |-> BadDate],
     [companyId |-> Undefined, opportunityId |-> IdName[1], interactionTime |-> NoDate,
      createdTime |-> 1]}
OpportunityLogSeeds ==
    {<<>>, <<[companyId |-> Undefined, opportunityId |-> IdName[1], createdTime |-> BadDate],
             [companyId |-> Undefined, opportunityId |-> IdName[1], createdTime |-> 1]>>}
\* the opportunities vary with the stages, or the activity of one does
ViewInitOpportunity ==
    /\ service = "opportunity"
    /\ \/ \E opps \in SeqsUpTo(OpportunityKinds, MaxRows), stages \in StageConfigs :
            /\ sheets = [NoSheets EXCEPT
                            !.opportunities = WithIds(opps, "opportunityId"),
                            !.companyList = CountyCompanies]
            /\ config = [DefaultConfig EXCEPT !.stages = stages]
       \/ \E interactions \in SeqsUpTo(OpportunityActivityKinds, MaxRows),
               eventLogs \in OpportunityLogSeeds :
            /\ sheets = [NoSheets EXCEPT
                            !.opportunities = <<OpportunityOf(1, <<"a">>)>>,
                            !.companyList = CountyCompanies,
                            !.interactions = WithIds(interactions, "interactionId"),
                            !.eventLogs = eventLogs]
            /\ config = DefaultConfig
    /\ sql = [weekly |-> <<>>, contactList |-> <<>>]
    /\ weeklyRepo = FALSE

\* official contacts of the listed company and of one nobody listed
ContactKinds ==
    {[name |-> <<"a">>, companyId |-> IdName[1], position |-> ValName[1], handleLost |-> FALSE],
     [name |-> <<"B">>, companyId |-> DanglingId, position |-> ValName[1],
      handleLost |-> FALSE],
     [name |-> <<>>, companyId |-> IdName[1], position |-> ValName[1], handleLost |-> FALSE],
     [name |-> <<"b">>, companyId |-> IdName[2], position |-> ValName[1],
      handleLost |-> FALSE]}
\* potential contacts: named or not, dated, undated, with a text as date
PotentialKinds ==
    {[name |-> <<"a">>, company |-> <<"c">>, position |-> ValName[1], notes |-> <<>>,
      createdTime |-> 1],
     [name |-> <<"B">>, company |-> <<>>, position |-> ValName[1], notes |-> <<>>,
      createdTime |-> 2],
     [name |-> <<>>, company |-> <<>>, position |-> ValName[1], notes |-> <<>>,
      createdTime |-> 2],
     [name |-> <<"b">>, company |-> <<"A">>, position |-> ValName[1], notes |-> <<>>,
      createdTime |-> BadDate],
     [name |-> <<"a">>, company |-> <<"a">>, position |-> ValName[1], notes |-> <<>>,
      createdTime |-> NoDate]}
\* the official contacts vary with the page size, or the potential contacts do
ViewInitContact ==
    /\ service = "contact"
    /\ \/ \E rows \in SeqsUpTo(ContactKinds, MaxRows), size \in PageSizes :
            /\ sheets = [NoSheets EXCEPT !.contactList = WithIds(rows, "contactId"),
                                         !.companyList = CompanySeed]
            /\ sql = [weekly |-> <<>>,
                      contactList |-> ContactReplica(WithIds(rows, "contactId"))]
            /\ config = [DefaultConfig EXCEPT !.contactsPerPage = size]
       \/ \E rows \in SeqsUpTo(PotentialKinds, MaxRows) :
            /\ sheets = [NoSheets EXCEPT !.contacts = rows, !.companyList = CompanySeed]
            /\ sql = [weekly |-> <<>>, contactList |-> <<>>]
            /\ config = DefaultConfig
    /\ weeklyRepo = FALSE

ViewInit ==
    /\ ops = 0
    /\ caches = NoCaches
    /\ written = NoWrites
    /\ last = NoCall
    /\ pending = NoPending
    /\ \/ ViewInitInteraction
       \/ ViewInitContact
       \/ ViewInitWeekly

ViewNext ==
    \/ \E query \in Queries, page \in Pages, fetchAll \in BOOLEAN, fault \in {"none", "reader"} :
          SearchInteractions(query, page, fetchAll, fault)
    \/ \E query \in Queries, page \in Pages, fed \in {"rows", "raise"},
          fault \in {"none", "reader"} : SearchOfficialContacts(query, page, fed, fault)
    \/ \E contactId \in RecordIds, byId \in {"answer", "raise"}, fed \in {"rows", "raise"},
          fault \in {"none", "reader", "companyReader"} :
          GetContactById(contactId, byId, fed, fault)
    \/ \E limit \in {0, 1, SearchLimit}, fault \in {"none", "reader"} :
          GetPotentialContacts(limit, fault)
    \/ \E query \in Queries, fault \in {"none", "reader"} : SearchContacts(query, fault)
    \/ \E fed \in {"rows", "raise"}, fault \in {"none", "reader"} :
          FetchWeeklyEntries(fed, fault)
    \/ \E weekId \in WeekIds, fed \in {"rows", "raise"}, fault \in {"none", "reader"} :
          GetEntriesForWeek(weekId, fed, fault)

ViewSpec == ViewInit /\ [][ViewNext]_vars

\* the views of the company and opportunity services over their stores
\* links of the first opportunity in force, in force in another letter case and
\* with blanks around, out of force, without a status, and of another opportunity
LinkKinds ==
    {[opportunityId |-> IdName[1], contactId |-> IdName[1], status |-> ActiveText],
     [opportunityId |-> IdName[1], contactId |-> IdName[2],
      status |-> <<" ", "A", "c", "t", "i", "v", "e">>],
     [opportunityId |-> IdName[1], contactId |-> IdName[1],
      status |-> <<"i", "n">> \o ActiveText],
     [opportunityId |-> IdName[1], contactId |-> IdName[2]],
     [opportunityId |-> IdName[2], contactId |-> IdName[1], status |-> ActiveText]}
LinkedContactSeed ==
    <<[contactId |-> IdName[1], name |-> <<"b">>, companyId |-> IdName[1],
       position |-> ValName[1], handleLost |-> FALSE],
      [contactId |-> IdName[2], name |-> <<"c">>, companyId |-> DanglingId,
       position |-> ValName[1], handleLost |-> FALSE]>>
\* the two services over the same links and official contacts
ViewInitLinks ==
    /\ service \in {"contact", "opportunity"}
    /\ \E links \in SeqsUpTo(LinkKinds, MaxRows) :
         sheets = [NoSheets EXCEPT
                      !.opportunities = <<OpportunityOf(1, <<"a">>)>>,
                      !.companyList = CompanySeed,
                      !.contactList = LinkedContactSeed,
                      !.links = links]
    /\ config = DefaultConfig
    /\ sql = [weekly |-> <<>>, contactList |-> <<>>]
    /\ weeklyRepo = FALSE

AggregateInit ==
    /\ ops = 0
    /\ caches = NoCaches
    /\ written = NoWrites
    /\ last = NoCall
    /\ pending = NoPending
    /\ \/ ViewInitCompany
       \/ ViewInitOpportunity
       \/ ViewInitLinks

AggregateNext ==
    \/ \E q \in Queries, fault \in {"none", "reader", "activityReader"} :
          GetCompanyListWithActivity(q, fault)
    \/ \E name \in TargetNames, fault \in {"none", "reader"} : GetCompanyDetails(name, fault)
    \/ \E name \in TargetNames : DeleteCompany(name, "none")
    \/ \E fault \in {"none", "reader"} : GetOpportunitiesByStage(fault)
    \/ \E type \in {Undefined, "t1"}, fault \in {"none", "reader"} :
          GetOpportunitiesByCounty(type, fault)
    \/ \E id \in {IdName[1], IdName[2]}, fault \in {"none", "reader"} :
          GetOpportunityDetails(id, fault)
    \/ \E row \in 2..(MaxRows + 1) : DeleteOpportunity(row, "none")
    \/ \E id \in {IdName[1], IdName[2]}, fault \in {"none", "reader"} :
          GetLinkedContacts(id, fault)

AggregateSpec == AggregateInit /\ [][AggregateNext]_vars

\* ------------------------------------------------------------------------
\* the company name keys: _normalizeCompanyName of either service, applied to
\* names written in every letter case, spacing, suffix and annotation
\* ------------------------------------------------------------------------
\* _normalizeCompanyName(name) of the service in focus
NormalizeCompanyName(parts, name) ==
    /\ service \in {"company", "opportunity"} /\ ops < MaxOps
    /\ ops' = ops + 1
    /\ last' = Call("normalizeCompanyName", name, parts, "ok",
                    IF service = "company" THEN normalizeCompanyName(name)
                    ELSE opportunityNormalizeCompanyName(name),
                    <<>>, 0, {}, <<>>, FALSE)
    /\ UNCHANGED <<config, service, sheets, caches, sql, weeklyRepo, written, pending>>

BaseName == <<"A", "B", "C">>
SuffixInc == <<" ", "I", "n", "c", ".">>
SuffixCoLtd == <<" ", "C", "o", ".", ",", " ", "L", "t", "d", ".">>
SuffixCo == <<" ", "c", "o", ".">>
SuffixTokens == {<<>>, SuffixFull, SuffixLimited, SuffixCompany, SuffixInc, SuffixCoLtd, SuffixCo}
Annotations == {<<>>, <<" ", "(", "T", "a", "i", "w", "a", "n", ")">>, <<"(", "t", "w", ")">>}
\* the ways one name is written
NameParts ==
    [lower : BOOLEAN, lead : BOOLEAN, trail : BOOLEAN, suffix : SuffixTokens,
     annotation : Annotations]
NameOf(parts) ==
    LET text == BaseName \o parts.suffix \o parts.annotation
    IN  (IF parts.lead THEN <<" ">> ELSE <<>>)
        \o (IF parts.lower THEN Lower(text) ELSE text)
        \o (IF parts.trail THEN <<" ">> ELSE <<>>)

NameInit ==
    /\ service \in {"company", "opportunity"}
    /\ ops = 0
    /\ sheets = NoSheets
    /\ caches = NoCaches
    /\ sql = [weekly |-> <<>>, contactList |-> <<>>]
    /\ config = DefaultConfig
    /\ weeklyRepo = FALSE
    /\ written = NoWrites
    /\ last = NoCall
    /\ pending = NoPending
NameNext == \E parts \in NameParts : NormalizeCompanyName(parts, NameOf(parts))
NameSpec == NameInit /\ [][NameNext]_vars

\* ------------------------------------------------------------------------
\* calls in flight together: a call is suspended at each await and the call of
\* another caller runs in between (one event loop, no lock in the services).
\* Each caller makes one call, split at the await of its writer; the calls
\* counted by ops run with nothing in between.
\* ------------------------------------------------------------------------
WeeklyWrites == {"updateWeeklyBusinessEntry", "deleteWeeklyBusinessEntry"}
\* updateWeeklyBusinessEntry / deleteWeeklyBusinessEntry up to the await of the
\* writer: the forced sheet read and the scan for the id
WeeklyScan(p, op, recordId, content) ==
    /\ service = "weekly" /\ pending[p].op = "idle"
    /\ LET f == fetchWeeklyEntries(TRUE, "rows", TRUE)
           idx == FindIndex(LAMBDA e : Get(e, "recordId") = recordId, f.entries)
           handle == IF idx = 0 THEN 0 ELSE RowIndexOf(f.entries[idx])
       IN  /\ caches' = [caches EXCEPT !.weekly = f.cache]
           /\ pending' = [pending EXCEPT ![p] =
                             IF idx = 0 THEN Done
                             ELSE [op |-> op, arg |-> recordId, handle |-> handle,
                                   val |-> content]]
           /\ last' = IF idx = 0
                      THEN Call(op, recordId, [fault |-> "none"], "NotFound", <<>>, <<>>,
                                0, {}, <<>>, FALSE)
                      ELSE last
    /\ UNCHANGED <<config, service, ops, sheets, sql, weeklyRepo, written>>
\* the awaited writer call of the suspended call: one positional write on the
\* store as it is now
WeeklyWriteAt(p) ==
    /\ service = "weekly" /\ pending[p].op \in WeeklyWrites
    /\ LET call == pending[p]
           refused == WriterRefuses(sheets.weekly, call.handle, "none")
           pos == PosOf(call.handle)
           sheet == IF refused THEN sheets.weekly
                    ELSE IF call.op = "updateWeeklyBusinessEntry"
                         THEN [sheets.weekly EXCEPT ![pos].summaryContent = call.val]
                         ELSE RemoveAt(sheets.weekly, pos)
       IN  /\ sheets' = [sheets EXCEPT !.weekly = sheet]
           /\ written' = IF refused THEN written
                         ELSE IF call.op = "updateWeeklyBusinessEntry"
                              THEN [written EXCEPT !.weekly = [id |-> call.arg, val |-> call.val]]
                              ELSE [written EXCEPT !.weekly = <<>>]
           /\ last' = Call(call.op, call.arg,
                           [fault |-> "none",
                            held |-> \E i \in 1..Len(sheets.weekly) :
                                        sheets.weekly[i].recordId = call.arg,
                            wrote |-> IF refused THEN Undefined
                                      ELSE sheets.weekly[pos].recordId],
                           IF refused THEN "WriterError" ELSE "ok",
                           IF refused THEN <<>> ELSE Success,
                           <<[fn |-> IF call.op = "updateWeeklyBusinessEntry"
                                     THEN "updateEntryRow" ELSE "deleteEntryRow",
                              handle |-> call.handle]>>,
                           0, {}, <<>>, sheet # sheets.weekly)
           /\ pending' = [pending EXCEPT ![p] = Done]
    /\ UNCHANGED <<config, service, ops, caches, sql, weeklyRepo>>

\* createCompany up to the await of the writer: the read of the company list
\* and the check for a company of an equal normalized name
CreateCompanyCheck(p, companyName) ==
    /\ service = "company" /\ pending[p].op = "idle"
    /\ LET companies == Read("companyList")
           idx == detailsCompanyIndex(companies, companyName)
       IN  /\ caches' = AfterReads(caches, {"companyList"})
           /\ pending' = [pending EXCEPT ![p] =
                             IF idx # 0 THEN Done
                             ELSE [op |-> "createCompany", arg |-> companyName,
                                   handle |-> 0, val |-> Undefined]]
           /\ last' = IF idx # 0
                      THEN Call("createCompany", companyName, [fault |-> "none"], "existed",
                                [success |-> TRUE, id |-> companies[idx].companyId,
                                 existed |-> TRUE, data |-> companies[idx]],
                                <<>>, 0, {}, <<>>, FALSE)
                      ELSE last
    /\ UNCHANGED <<config, service, ops, sheets, sql, weeklyRepo, written>>
\* the awaited companyWriter.createCompany of the suspended call, and the
\* invalidation after it
CreateCompanyWrite(p) ==
    /\ service = "company" /\ pending[p].op = "createCompany"
    /\ LET newId == FreshId(sheets.companyList, "companyId")
           row == [companyId |-> newId, companyName |-> pending[p].arg,
                   phone |-> ValName[1], createdTime |-> 1, handleLost |-> FALSE]
       IN  /\ sheets' = [sheets EXCEPT !.companyList = Append(@, row)]
           /\ caches' = Invalidate(caches, "companyList")
           /\ last' = Call("createCompany", pending[p].arg, [fault |-> "none"], "ok",
                           [success |-> TRUE, id |-> newId],
                           <<[fn |-> "createCompany", handle |-> 0]>>,
                           0, {"companyList"}, <<>>, TRUE)
           /\ pending' = [pending EXCEPT ![p] = Done]
    /\ UNCHANGED <<config, service, ops, sql, weeklyRepo, written>>

\* weekly entries under the first ids, every one with its handle; no company
\* or the first one
RaceRows == MaxRows + 1
RaceInit ==
    /\ ops = 0
    /\ caches = NoCaches
    /\ written = NoWrites
    /\ last = NoCall
    /\ pending = NoPending
    /\ config = DefaultConfig
    /\ sql = [weekly |-> <<>>, contactList |-> <<>>]
    /\ weeklyRepo = FALSE
    /\ \/ /\ service = "weekly"
          /\ \E k \in 1..RaceRows :
                sheets = [NoSheets EXCEPT !.weekly =
                    [pos \in 1..k |-> [recordId |-> IdName[pos],
                                       summaryContent |-> ValName[1], entryDate |-> 1,
                                       handleLost |-> FALSE]]]
       \/ /\ service = "company"
          /\ \E seed \in {<<>>, CompanySeed} :
                sheets = [NoSheets EXCEPT !.companyList = seed]
\* names of one normalized name, and the name of the first company
RaceNames == {<<"b">>, <<"B", "gong", "si">>, <<"a">>}
RaceNext ==
    \/ \E p \in Callers, op \in WeeklyWrites, recordId \in RecordIds, v \in NewVals :
          WeeklyScan(p, op, recordId, IF op = "updateWeeklyBusinessEntry" THEN v ELSE Undefined)
    \/ \E p \in Callers : WeeklyWriteAt(p)
    \/ \E p \in Callers, name \in RaceNames : CreateCompanyCheck(p, name)
    \/ \E p \in Callers : CreateCompanyWrite(p)
    \/ \E name \in RaceNames :
          CreateCompany(FreshId(sheets.companyList, "companyId"), name, "none")
    \/ \E name \in RaceNames, v \in NewVals : UpdateCompany(name, v, "none")
    \/ \E name \in RaceNames : DeleteCompany(name, "none")

RaceSpec == RaceInit /\ [][RaceNext]_vars

\* ------------------------------------------------------------------------
\* the properties
\* ------------------------------------------------------------------------
\* the calls the primary writer received in the last operation, and whether the
\* audit entry of the last operation was attempted and failed
PrimaryCalls == SelectSeq(last.writerCalls, LAMBDA c : c.fn # "createInteraction")
AuditFailed ==
    \E i \in 1..Len(last.writerCalls) :
        last.writerCalls[i].fn = "createInteraction" /\ last.writerCalls[i].failed
\* the row handle a record carries, 0 for none
HandleOn(record) ==
    IF record # <<>> /\ "rowIndex" \in DOMAIN record THEN record.rowIndex ELSE 0
\* the record without the fields a join added to its copy
Restrict(record, keys) == [k \in keys |-> record[k]]
FedFailed == last.env.fed \in {"raise", "null", "scalar", "object"}

\* C1: when the federated reader raises or answers with something that is no
\* sequence, a read-preferred fetch (the weekly entries with a repo injected, the
\* official-contact search) returns the records of the authoritative reader and
\* raises nothing, provided the authoritative readers succeed.
C1_FallbackToAuthoritative ==
    /\ (last.op = "fetchWeeklyEntries" /\ weeklyRepo /\ FedFailed /\ last.env.fault = "none")
          => (last.outcome = "ok" /\ last.result = Read("weekly"))
    /\ (last.op = "searchOfficialContacts" /\ FedFailed /\ last.env.fault = "none")
          => /\ last.outcome = "ok"
             /\ LET held == Read("contactList")
                IN  /\ Len(last.result.data) = Len(held)
                    /\ \A i \in 1..Len(held) :
                          Restrict(last.result.data[i], DOMAIN held[i]) = held[i]
C1_Witness ==
    /\ last.op = "fetchWeeklyEntries" /\ weeklyRepo /\ last.env.fed = "object"
    /\ last.env.fault = "none" /\ last.outcome = "ok" /\ Len(last.result) = MaxRows

\* C2: after a successful update of record X setting a field to v, a
\* read-preferred fetch of X's collection returns X with v, whatever the state of
\* the federated store.
C2_ReadAfterWrite ==
    /\ (last.op = "fetchWeeklyEntries" /\ last.outcome = "ok" /\ written.weekly # <<>>)
          => \E i \in 1..Len(last.result) :
                /\ last.result[i].recordId = written.weekly.id
                /\ last.result[i].summaryContent = written.weekly.val
    /\ (last.op = "searchOfficialContacts" /\ last.outcome = "ok" /\ written.contactList # <<>>)
          => \E i \in 1..Len(last.result.data) :
                /\ last.result.data[i].contactId = written.contactList.id
                /\ last.result.data[i].position = written.contactList.val

IdWrites == {"updateContact", "updateWeeklyBusinessEntry", "deleteWeeklyBusinessEntry",
             "updateCompany", "deleteCompany"}
\* C3: an update or delete by logical id makes at most one call of its writer,
\* one when it succeeds, and the call carries the row handle of the record of the
\* authoritative reader that matched the id, never another one.
C3_WriterGetsMatchedHandle ==
    last.op \in IdWrites =>
        /\ Len(PrimaryCalls) <= 1
        /\ last.outcome = "ok" => Len(PrimaryCalls) = 1
        /\ \A i \in 1..Len(PrimaryCalls) :
              /\ last.target # <<>>
              /\ PrimaryCalls[i].handle = HandleOn(last.target)
C3_Witness ==
    /\ last.op = "deleteCompany" /\ last.outcome = "ok"
    /\ Len(PrimaryCalls) = 1 /\ PrimaryCalls[1].handle = HandleOf(2)

\* C4: updateWeeklyBusinessEntry, deleteWeeklyBusinessEntry and updateContact
\* never call the federated reader, injected or not, and the handle they pass to
\* the writer is the one on a record of the authoritative reader.
C4_WriteNeverReadsFederated ==
    last.op \in {"updateWeeklyBusinessEntry", "deleteWeeklyBusinessEntry", "updateContact"}
        => /\ last.fedCalls = 0
           /\ \A i \in 1..Len(PrimaryCalls) :
                 /\ PrimaryCalls[i].handle = HandleOn(last.target)
                 /\ PrimaryCalls[i].handle # 0 => "rowIndex" \in DOMAIN last.target
C4_Witness ==
    /\ last.op = "updateWeeklyBusinessEntry" /\ weeklyRepo /\ last.outcome = "ok"
    /\ sql.weekly # <<>>

\* the last operation looked an id up in what its reader answered, and no record
\* there matched
NoRecordMatched == last.op \in IdWrites /\ last.outcome # "Error" /\ last.target = <<>>
NothingWritten == PrimaryCalls = <<>> /\ last.invalidated = {} /\ ~last.changed
C6_IntegrityError ==
    (last.op \in IdWrites /\ last.target # <<>> /\ HandleOn(last.target) = 0)
        => (last.outcome = "Integrity" /\ PrimaryCalls = <<>>)

\* C7: whatever updateData holds, the notes updatePotentialContact hands to the
\* writer begin with the notes the record had.
C7_NotesAppendOnly ==
    (last.op = "updatePotentialContact" /\ PrimaryCalls # <<>>)
        => StartsWith(PrimaryCalls[1].data.notes, last.target.notes)

AuditedWrites == {"updateOpportunity", "addContactToOpportunity", "deleteContactLink",
                  "deleteOpportunity", "updateCompany"}
\* C8: when the primary write of an audited operation succeeded and the write of
\* the audit entry fails, the operation raises nothing and returns the primary
\* result.
C8_AuditFailureSwallowed ==
    (last.op \in AuditedWrites /\ AuditFailed)
        => (last.outcome = "ok" /\ last.result # <<>> /\ last.result.success)
C8_Witness ==
    /\ last.op = "deleteOpportunity" /\ AuditFailed /\ last.outcome = "ok"
    /\ last.changed

\* the collection each write operation changes
ChangedBy ==
    [createWeeklyBusinessEntry |-> "weekly", updateWeeklyBusinessEntry |-> "weekly",
     deleteWeeklyBusinessEntry |-> "weekly", updateContact |-> "contactList",
     updatePotentialContact |-> "contacts", createCompany |-> "companyList",
     updateCompany |-> "companyList", deleteCompany |-> "companyList",
     updateOpportunity |-> "opportunities", deleteOpportunity |-> "opportunities",
     createInteraction |-> "interactions", updateInteraction |-> "interactions",
     deleteInteraction |-> "interactions"]
\* C9: a write operation that returned successfully has marked the cache of the
\* collection it changed as stale.
C9_WriteInvalidates ==
    (last.op \in DOMAIN ChangedBy /\ last.outcome = "ok")
        => (ChangedBy[last.op] \in last.invalidated /\ ~caches[ChangedBy[last.op]].fresh)

\* C10: the records the readers hold have the fields and values the readers gave
\* them, whatever read operations ran.
C10_ReadsLeaveRecordsAlone ==
    \A k \in Keys : caches[k].fresh => caches[k].rows = caches[k].delivered

\* the parent of an opportunity id in the store, the empty id when it has none
ParentOf(opps, id) ==
    LET idx == FindIndex(LAMBDA o : o.opportunityId = id, opps)
    IN  IF idx = 0 THEN EmptyStr ELSE opps[idx].parentOpportunityId
\* the ids met by following the parent links from an id, for at most n steps
RECURSIVE AncestorsOf(_, _, _)
AncestorsOf(opps, id, n) ==
    LET parent == ParentOf(opps, id)
    IN  IF n = 0 \/ parent = EmptyStr THEN {}
        ELSE {parent} \cup AncestorsOf(opps, parent, n - 1)
\* C11: the collection starts acyclic and, after any createOpportunity,
\* updateOpportunity and batchUpdateOpportunities calls, no opportunity is
\* reached from itself through parentOpportunityId links.
C11_NoOpportunityIsItsOwnAncestor ==
    \A pos \in 1..Len(sheets.opportunities) :
        sheets.opportunities[pos].opportunityId
            \notin AncestorsOf(sheets.opportunities,
                               sheets.opportunities[pos].opportunityId,
                               Len(sheets.opportunities))

\* the envelope of the last call when it returned one
Envelope == last.result.pagination
PagedCall ==
    /\ last.op \in {"searchInteractions", "searchOfficialContacts"}
    /\ last.outcome = "ok"
PaginationLaw(current, pageSize) ==
    /\ Envelope.current = current
    /\ Envelope.total = CeilDiv(Envelope.totalItems, pageSize)
    /\ Envelope.hasNext = (current * pageSize < Envelope.totalItems)
    /\ Envelope.hasPrev = (current > 1)
\* C12 as stated: every envelope of searchInteractions, in the paged and the
\* fetchAll mode, and of searchOfficialContacts has total = ceil(N/P),
\* hasNext = (current*P < N) and hasPrev = (current > 1).
C12_PaginationLawEveryMode ==
    PagedCall => PaginationLaw(Envelope.current, last.env.pageSize)
\* C12: the envelope of searchInteractions in the paged mode and of
\* searchOfficialContacts has current = page, total = ceil(N/P),
\* hasNext = (current*P < N) and hasPrev = (current > 1); in the fetchAll mode
\* the envelope is one page: current 1, total 1, no next and no previous page.
C12_PaginationLaw ==
    PagedCall =>
        IF last.op = "searchInteractions" /\ last.env.fetchAll
        THEN /\ Envelope = [current |-> 1, total |-> 1,
                            totalItems |-> Len(last.result.data),
                            hasNext |-> FALSE, hasPrev |-> FALSE]
        ELSE PaginationLaw(last.env.page, last.env.pageSize)
C12_Witness ==
    /\ PagedCall /\ last.op = "searchInteractions" /\ ~last.env.fetchAll
    /\ last.env.pageSize = 1 /\ last.env.page = 1
    /\ Envelope.totalItems = MaxRows /\ Envelope.hasNext /\ Envelope.total = MaxRows

\* the date-sorted lists of the last call, each with the date its records sort by
SortedLists ==
    IF last.outcome # "ok" THEN {}
    ELSE CASE last.op = "searchInteractions" -> {<<last.result.data, "interactionTime">>}
           [] last.op = "getPotentialContacts" -> {<<last.result, "createdTime">>}
           [] last.op = "getEntriesForWeek" -> {<<last.result, "entryDate">>}
           [] last.op = "getCompanyDetails" /\ last.result # <<>> ->
                  {<<last.result.interactions, "interactionOrEpoch">>,
                   <<last.result.eventLogs, "createdOrEpoch">>}
           [] last.op = "getOpportunityDetails" ->
                  {<<last.result.interactions, "interactionOrCreated">>,
                   <<last.result.eventLogs, "createdOrEpoch">>}
           [] OTHER -> {}
SortDate(by, record) ==
    CASE by = "interactionTime" -> DateOf(DateAt(record, "interactionTime"))
      [] by = "createdTime" -> DateOf(DateAt(record, "createdTime"))
      [] by = "entryDate" -> DateOf(DateAt(record, "zhDate"))
      [] by = "interactionOrEpoch" -> DateOrEpoch(DateAt(record, "interactionTime"))
      [] by = "createdOrEpoch" -> DateOrEpoch(DateAt(record, "createdTime"))
      [] by = "interactionOrCreated" ->
             DateOf(IF DateAt(record, "interactionTime") # NoDate
                    THEN DateAt(record, "interactionTime")
                    ELSE DateAt(record, "createdTime"))
\* C13: in every date-sorted list searchInteractions, getPotentialContacts,
\* getEntriesForWeek, getCompanyDetails and getOpportunityDetails return, every
\* record with a parseable date precedes every record with an unparseable one,
\* and the parseable dates do not increase.
C13_UnparseableDatesLast ==
    \A list \in SortedLists :
        \A i, j \in 1..Len(list[1]) :
            i < j => /\ SortDate(list[2], list[1][i]) = NaN =>
                            SortDate(list[2], list[1][j]) = NaN
                     /\ SortDate(list[2], list[1][j]) # NaN =>
                            SortDate(list[2], list[1][i]) >= SortDate(list[2], list[1][j])


\* C14: _normalizeCompanyName returns one key for all the ways a name is written
\* that differ in letter case, surrounding whitespace, corporate suffix token and
\* parenthetical annotation only.
C14_OneKeyPerName ==
    last.op = "normalizeCompanyName" =>
        \A parts \in NameParts :
            last.result = IF service = "company" THEN normalizeCompanyName(NameOf(parts))
                          ELSE opportunityNormalizeCompanyName(NameOf(parts))


\* the configured stages, and the opportunities in progress at a stage among
\* the ones the reader answered
ConfiguredStages == {config.stages[i].value : i \in 1..Len(config.stages)}
InProgressAt(v) ==
    SelectSeq(caches.opportunities.rows,
              LAMBDA o : Get(o, "currentStatus") = InProgress /\ Get(o, "currentStage") = v)
\* C15: when its reads succeed, getOpportunitiesByStage returns a mapping whose
\* keys are exactly the configured stages; a stage no opportunity is at has
\* count 0 and no members, and in every group count is the length of the
\* member list.
C15_EveryConfiguredStage ==
    (last.op = "getOpportunitiesByStage" /\ last.env.fault = "none") =>
        /\ DOMAIN last.result = ConfiguredStages
        /\ \A v \in DOMAIN last.result :
              /\ last.result[v].count = Len(last.result[v].opportunities)
              /\ InProgressAt(v) = <<>> =>
                    last.result[v].count = 0 /\ last.result[v].opportunities = <<>>


\* the number of records the last text search returned, and the number of
\* records of its view that the readers answered
Returned ==
    CASE last.op \in {"searchInteractions", "searchOfficialContacts"} ->
             last.result.pagination.totalItems
      [] last.op = "searchContacts" -> Len(last.result.data)
      [] OTHER -> Len(last.result)
Searched ==
    CASE last.op = "searchInteractions" -> Len(caches.interactions.rows)
      [] last.op = "searchOfficialContacts" ->
             IF contactSqlAttempt(last.env.fed) = "served" THEN Len(sql.contactList)
             ELSE Len(caches.contactList.rows)
      [] last.op = "searchContacts" ->
             Len(SelectSeq(caches.contacts.rows,
                           LAMBDA c : TruthyAt(c, "name") \/ TruthyAt(c, "company")))
      [] OTHER -> Len(caches.companyList.rows)
TextSearch ==
    /\ last.op \in {"searchInteractions", "searchContacts", "searchOfficialContacts",
                    "getCompanyListWithActivity"}
    /\ last.outcome = "ok"
\* C16: searchInteractions, searchContacts, searchOfficialContacts and
\* getCompanyListWithActivity return all the records of their view for the empty
\* query and for a query of blanks only.
C16_BlankQueryReturnsAll ==
    (TextSearch /\ Trim(last.arg) = <<>>) => Returned = Searched


\* an id is present, and it resolves among the rows the reader answered
Present(id) == id # Undefined /\ id # EmptyStr
ResolvedNames(id, rows, key, nameKey) ==
    {rows[i][nameKey] : i \in {j \in 1..Len(rows) : Present(id) /\ rows[j][key] = id}}
ContextOf(item) ==
    [opportunity |-> ResolvedNames(item.opportunityId, caches.opportunities.rows,
                                   "opportunityId", "opportunityName"),
     company |-> ResolvedNames(item.companyId, caches.companyList.rows,
                               "companyId", "companyName")]
\* C17: the context name searchInteractions attaches to an interaction is the
\* 'not specified' sentinel exactly when its opportunityId and companyId are both
\* absent, an 'unknown' placeholder exactly when one of them is present and none
\* resolves, and otherwise the resolved name, the opportunity's before the
\* company's; no interaction makes the search raise.
C17_ContextName ==
    last.op = "searchInteractions" =>
        /\ last.env.fault = "none" => last.outcome = "ok"
        /\ last.outcome = "ok" =>
              \A i \in 1..Len(last.result.data) :
                  LET item == last.result.data[i]
                      name == item.opportunityName
                      context == ContextOf(item)
                      anyId == Present(item.opportunityId) \/ Present(item.companyId)
                      resolved == context.opportunity # {} \/ context.company # {}
                  IN  /\ name = Unspecified <=> ~anyId
                      /\ name \in {UnknownOpportunity, UnknownCompany} <=> (anyId /\ ~resolved)
                      /\ context.opportunity # {} => name \in context.opportunity
                      /\ (context.opportunity = {} /\ context.company # {}) =>
                             name \in context.company
C17_Witness ==
    /\ last.op = "searchInteractions" /\ last.outcome = "ok"
    /\ \E i, j \in 1..Len(last.result.data) :
          /\ last.result.data[i].opportunityName = UnknownOpportunity
          /\ last.result.data[j].opportunityId = DanglingId
          /\ ContextOf(last.result.data[j]).company # {}
          /\ last.result.data[j].opportunityName \in ContextOf(last.result.data[j]).company


\* null as the last activity of a company
Null == NoDate
\* the valid timestamps of the interactions and event logs the readers answered
\* that carry the id of a company
ActivityTimes(companyId) ==
    LET interactions == caches.interactions.rows
        eventLogs == caches.eventLogs.rows
    IN  ({DateOf(ActivityDate(interactions[i])) :
             i \in {j \in 1..Len(interactions) : interactions[j].companyId = companyId}}
         \cup {DateOf(DateAt(eventLogs[i], "createdTime")) :
                 i \in {j \in 1..Len(eventLogs) : eventLogs[j].companyId = companyId}})
        \ {NaN}
ExpectedActivity(comp) ==
    IF ActivityTimes(comp.companyId) # {} THEN Max(ActivityTimes(comp.companyId))
    ELSE IF DateOf(DateAt(comp, "createdTime")) # NaN THEN DateAt(comp, "createdTime")
    ELSE Null
ActivityListed ==
    /\ last.op = "getCompanyListWithActivity"
    /\ last.outcome = "ok" /\ last.env.fault = "none"
\* C18: when its reads succeed, getCompanyListWithActivity gives each company as
\* lastActivity the latest valid timestamp of the interactions and event logs
\* with its companyId, else its creation timestamp when valid, else null; the
\* companies with null come after all others, which are in non-increasing order
\* of lastActivity.
C18_LastActivity ==
    ActivityListed =>
        /\ \A i \in 1..Len(last.result) :
              last.result[i].lastActivity = ExpectedActivity(last.result[i])
        /\ \A i, j \in 1..Len(last.result) :
              i < j => /\ last.result[i].lastActivity = Null =>
                             last.result[j].lastActivity = Null
                       /\ last.result[j].lastActivity # Null =>
                             last.result[i].lastActivity >= last.result[j].lastActivity


\* the canonical text fields of a weekly entry, the text fields among them that
\* the model of the sheet reader carries, and the legacy mirror of a field
WeeklyFields ==
    {"recordId", "weekId", "summaryContent", "creator", "category", "topic",
     "participants", "todoItems", "createdTime", "updatedTime"}
SheetFields == {"recordId", "summaryContent"}
Mirrors ==
    {<<"zhContent", "summaryContent">>, <<"zhCategory", "category">>, <<"zhTopic", "topic">>,
     <<"zhParticipants", "participants">>, <<"zhTodo", "todoItems">>}
ServedBySql == weeklyRepo /\ weeklySqlAttempt(last.env.fed) = "served"
\* C19: every record a read-preferred weekly fetch returns has each recognized
\* field present with a value other than undefined, and each legacy mirror key
\* equal to its canonical counterpart.
C19_EveryFieldPresent ==
    (last.op = "fetchWeeklyEntries" /\ last.outcome = "ok") =>
        \A i \in 1..Len(last.result) :
            LET record == last.result[i]
            IN  /\ \A key \in (IF ServedBySql THEN WeeklyFields ELSE SheetFields) :
                      key \in DOMAIN record /\ record[key] # Undefined
                /\ "zhDate" \in DOMAIN record /\ "entryDate" \in DOMAIN record
                /\ record.zhDate = record.entryDate
                /\ ServedBySql =>
                      \A m \in Mirrors : Get(record, m[1]) = Get(record, m[2])


\* an opportunity and a company name that have one normalizeName key
SameCompany(opp, companyName) ==
    normalizeCompanyName(TextAt(opp, "customerCompany")) = normalizeCompanyName(companyName)
\* the companies the reader answered that an opportunity belongs to
CompaniesOf(opp) ==
    {i \in 1..Len(caches.companyList.rows) :
        SameCompany(opp, caches.companyList.rows[i].companyName)}
RECURSIVE SumCounts(_)
SumCounts(counts) == IF counts = <<>> THEN 0 ELSE Head(counts).count + SumCounts(Tail(counts))
\* C20: the four associations of an opportunity with a company by name relate
\* the pairs with equal normalizeName keys: getOpportunitiesByCounty counts an
\* opportunity exactly when a company with a county has its key, deleteOpportunity
\* notes the deletion on a company exactly when one has its key,
\* getCompanyDetails lists exactly the opportunities with the company's key, and
\* deleteCompany is refused exactly when an opportunity has the company's key.
C20_OneJoinKey ==
    /\ (last.op = "getOpportunitiesByCounty" /\ last.env.fault = "none") =>
          SumCounts(last.result) =
              Cardinality({i \in 1..Len(caches.opportunities.rows) :
                  LET opp == caches.opportunities.rows[i]
                  IN  /\ Get(opp, "currentStatus") # Archived
                      /\ last.arg # Undefined => Get(opp, "opportunityType") = last.arg
                      /\ \E c \in CompaniesOf(opp) :
                            TruthyAt(caches.companyList.rows[c], "county")})
    /\ (last.op = "deleteOpportunity" /\ last.outcome = "ok"
           /\ TruthyAt(last.target, "customerCompany")) =>
          ((\E c \in 1..Len(last.writerCalls) : last.writerCalls[c].fn = "createInteraction")
             <=> CompaniesOf(last.target) # {})
    /\ (last.op = "getCompanyDetails" /\ last.outcome = "ok" /\ last.target # <<>>) =>
          last.result.opportunities =
              SelectSeq(caches.opportunities.rows,
                        LAMBDA o : SameCompany(o, last.target.companyName))
    /\ (last.op = "deleteCompany" /\ last.outcome # "Error") =>
          (last.outcome = "HasOpportunities"
             <=> \E i \in 1..Len(caches.opportunities.rows) :
                    SameCompany(caches.opportunities.rows[i], last.arg))


\* the attempts of the last operation to write an audit entry
AuditCalls == SelectSeq(last.writerCalls, LAMBDA c : c.fn = "createInteraction")
ListedContact(contactId) ==
    SelectSeq(sheets.contactList, LAMBDA c : c.contactId = contactId)
\* C22: getContactById(id) returns the contact whose contactId is id whenever
\* the authoritative contact list has one and no reader of the sheets fails,
\* also when the federated lookup raises or finds nothing and the search is used.
C22_ContactOfIdReturned ==
    (/\ last.op = "getContactById" /\ last.env.fault = "none"
     /\ ListedContact(last.arg) # <<>>)
    => (last.result # <<>> /\ last.result[1].contactId = last.arg)

\* the record ids getEntriesForWeek has from the authoritative reader
WeekIdsOfSheet(weekId) ==
    IF ~WeekInfo(weekId).known THEN {}
    ELSE {e.recordId : e \in {WeeklyLoad(sheets.weekly)[pos] : pos \in
             {q \in 1..Len(sheets.weekly) :
                 InWeek(WeeklyLoad(sheets.weekly)[q], WeekInfo(weekId))}}}
\* C23: the records a read-preferred weekly fetch has from the federated reader
\* carry recordId, weekId, entryDate, the legacy date and summaryContent of the
\* stored rows record_id, week_id, entry_date and summary_content, so
\* getEntriesForWeek returns the record ids the authoritative reader gives for
\* the same rows.
C23_FederatedFieldsPreserved ==
    /\ (last.op = "fetchWeeklyEntries" /\ last.outcome = "ok" /\ ServedBySql) =>
          /\ Len(last.result) = Len(sql.weekly)
          /\ \A i \in 1..Len(last.result) :
                /\ last.result[i].recordId = sql.weekly[i].record_id
                /\ last.result[i].weekId = sql.weekly[i].week_id
                /\ last.result[i].entryDate = sql.weekly[i].entry_date
                /\ last.result[i].zhDate = sql.weekly[i].entry_date
                /\ last.result[i].summaryContent = sql.weekly[i].summary_content
    /\ (/\ last.op = "getEntriesForWeek" /\ ServedBySql
        /\ sql.weekly = WeeklyReplica(sheets.weekly)) =>
          {last.result[i].recordId : i \in 1..Len(last.result)} = WeekIdsOfSheet(last.arg)

\* the stored opportunities of a company name, by equal normalized names
OpportunitiesUnder(companyName) ==
    {i \in 1..Len(sheets.opportunities) : SameCompany(sheets.opportunities[i], companyName)}
\* C24: deleteCompany never calls the writer's delete while an opportunity
\* exists whose normalized customer-company name equals the normalized name of
\* the company: the call fails, the store and the company cache stay as they were.
C24_NoDeleteWithOpportunities ==
    [][(last'.op = "deleteCompany" /\ OpportunitiesUnder(last'.arg) # {}) =>
          /\ last'.writerCalls = <<>>
          /\ last'.outcome \notin {"ok", "NotFound"}
          /\ sheets' = sheets
          /\ caches'.companyList = caches.companyList]_vars
C24_Witness ==
    /\ last.op = "deleteCompany" /\ last.outcome = "HasOpportunities"
    /\ findCompanyIndex(sheets.companyList, last.arg) # 0
    /\ \E i \in OpportunitiesUnder(last.arg) :
          sheets.opportunities[i].customerCompany # last.arg

\* the row handles of the companies of exactly a name
HandlesNamed(companyName) ==
    {HandleOf(i) : i \in {j \in 1..Len(sheets.companyList) :
                              sheets.companyList[j].companyName = companyName}}
\* C25: when a company of exactly the requested name exists, updateCompany and
\* deleteCompany hand the writer the row handle of that company, also when a
\* company with another raw name and an equal normalized name stands earlier in
\* the list.
C25_ExactNameWins ==
    [][(/\ ops' # ops /\ last'.op \in {"updateCompany", "deleteCompany"}
        /\ last'.writerCalls # <<>> /\ HandlesNamed(last'.arg) # {}) =>
          last'.writerCalls[1].handle \in HandlesNamed(last'.arg)]_vars

\* C26: under every interleaving of two callers on the weekly entries, one
\* deleting Y by id and one updating X by id, the row the update writes is the
\* row that holds X at the moment of the write (X being in the store then).
C26_UpdateWritesItsRow ==
    (/\ last.op = "updateWeeklyBusinessEntry" /\ last.outcome = "ok"
     /\ "wrote" \in DOMAIN last.env /\ last.env.held)
    => last.env.wrote = last.arg

\* C27: createCompany writes nothing and answers the existing company with
\* existed = true when a company of an equal normalized name exists, so the
\* normalized names of the companies stay pairwise distinct after every sequence
\* and interleaving of createCompany calls.
C27_NormalizedNamesDistinct ==
    /\ (last.op = "createCompany" /\ last.outcome = "existed") =>
          /\ last.writerCalls = <<>> /\ ~last.changed /\ last.result.existed
          /\ normalizeCompanyName(last.result.data.companyName)
                = normalizeCompanyName(last.arg)
    /\ \A i, j \in 1..Len(sheets.companyList) :
          i < j => normalizeCompanyName(sheets.companyList[i].companyName)
                     # normalizeCompanyName(sheets.companyList[j].companyName)

\* C28: addContactToOpportunity is all-or-nothing: whenever it raises, no store
\* has been modified; no company or contact was created and the potential
\* contact was not marked upgraded.
C28_AllOrNothing ==
    [][(/\ ops' # ops /\ last'.op = "addContactToOpportunity"
        /\ last'.outcome # "ok") => sheets' = sheets]_vars

\* C29: a failure of a read that only serves the wording of the audit entry
\* (the contact list in deleteContactLink, the system configuration in
\* updateOpportunity) does not prevent the primary mutation: the writer is
\* called and the call succeeds.
C29_AuditReadFailureTolerated ==
    /\ (/\ last.op = "updateOpportunity" /\ last.env.fault = "configReader"
        /\ last.outcome # "NotFound") =>
          (PrimaryCalls # <<>> /\ last.outcome = "ok")
    /\ (last.op = "deleteContactLink" /\ last.env.fault = "reader") =>
          (PrimaryCalls # <<>> /\ last.outcome = "ok")

\* the contact ids of a list of contacts, and whether each stands in it once
ContactIds(contacts) == {contacts[i].contactId : i \in 1..Len(contacts)}
EachOnce(contacts) ==
    \A i, j \in 1..Len(contacts) : contacts[i].contactId = contacts[j].contactId => i = j
\* C30: over the same links, official contacts and opportunity id the contact
\* ids getLinkedContacts returns are the contact ids of linkedContacts in
\* getOpportunityDetails, for every status a link may have (active, inactive,
\* missing, in another letter case), and each linked contact is listed once.
C30_SameLinkedContacts ==
    /\ (last.op = "getLinkedContacts" /\ last.env.fault = "none") =>
          /\ ContactIds(last.result)
                = ContactIds(LinkedContacts(Load("links"), Load("contactList"), last.arg))
          /\ EachOnce(last.result)
    /\ (last.op = "getOpportunityDetails" /\ last.outcome = "ok") =>
          /\ ContactIds(last.result.linkedContacts)
                = ContactIds(getLinkedContacts(Load("links"), Load("contactList"),
                                               Load("companyList"), Load("contacts"),
                                               last.arg))
          /\ EachOnce(last.result.linkedContacts)

====
